---- MODULE Spec2Model ----
(***************************************************************************)
(* The RAID Phase 0 ledger (raid/repository.py), the projection layer      *)
(* (raid/projections.py) and the trend aggregator (raid/trends.py) as a    *)
(* state machine over the SQLite tables sessions, kpi_templates,           *)
(* club_subsessions and projections.                                       *)
(*                                                                         *)
(* Every repository method is an operator from the database (and its       *)
(* arguments) to the database after the call and the call's outcome; the   *)
(* actions apply these operators to the state.  The constraints and        *)
(* triggers live in raid/schema.sql, which Repository._ensure_schema       *)
(* executes: that script is modelled as the set of schema objects it       *)
(* creates.                                                                *)
(***************************************************************************)
EXTENDS Integers, Sequences, FiniteSets, TLC

VARIABLES sessions, kpi_templates, club_subsessions, projections, last, writers, call

vars == <<sessions, kpi_templates, club_subsessions, projections, last, writers, call>>

\* ------------------------------------------------------------------ bounds

\* Most rows the model lets each table hold.
MaxSessions == 1
MaxTemplates == 2
MaxSubsessions == 2
\* Most projections the cache holds.
MaxProjections == 1
\* Callers that are inside insert_subsession at the same time.
MaxWriters == 2

\* ------------------------------------------------------------------ values

\* SQL NULL / Python None, and a present value: a nullable column holds
\* NULL or Some(v).
NULL == <<>>
Some(v) == <<v>>

Clubs == {"7i", "PW"}
\* Caller-supplied template hashes (64 hex characters in the code): as many
\* distinct ones as the template table may hold rows.
HashPool == <<"hash_a", "hash_b", "hash_c", "hash_d">>
Hashes == {HashPool[i] : i \in 1..MaxTemplates}
Jsons == {"json_1"}
\* session_date: ISO-8601 timestamps of one format compare as their instants.
SessionDates == 1..MaxSessions
ValidityStatuses == {"invalid_insufficient_data", "valid_low_sample_warning", "valid"}
ACounts == {1}
BCounts == {0}
CCounts == {1}
ShotCounts == {1, 2}
APercentages == {NULL, Some(50)}

\* The authoritative tables.
AuthoritativeTables == {"sessions", "kpi_templates", "club_subsessions"}

\* ------------------------------------------------------------------ schema

\* raid/schema.sql: the objects the script creates.  The tables, the
\* immutability triggers (BEFORE UPDATE / BEFORE DELETE, RAISE(ABORT,
\* '... immutable ...')), the key and uniqueness constraints, the foreign
\* keys of club_subsessions and its CHECK constraints.
SchemaSql ==
    AuthoritativeTables \cup {"projections"} \cup
    {"trg_no_update:sessions", "trg_no_delete:sessions",
     "trg_no_update:kpi_templates", "trg_no_delete:kpi_templates",
     "trg_no_update:club_subsessions", "trg_no_delete:club_subsessions",
     "pk:kpi_templates.template_hash",
     "unique:club_subsessions(session_id,club,kpi_template_hash)",
     "fk:club_subsessions.session_id->sessions",
     "fk:club_subsessions.kpi_template_hash->kpi_templates",
     "check:a_count+b_count+c_count=shot_count",
     "check:a_percentage_null_iff_invalid"}

\* A plausible slip: only the tables are created (conn.execute runs one
\* statement; hand-written CREATE TABLE without constraints or triggers).
ensure_schema_tables_only(existing_objects) ==
    IF existing_objects \cap AuthoritativeTables = {}
    THEN AuthoritativeTables \cup {"projections"}
    ELSE existing_objects

\* Repository._ensure_schema: with no authoritative table present the whole
\* script is executed; a complete set of tables is left as it is.  (A partial
\* set raises RuntimeError: no repository is constructed.)
ensure_schema(existing_objects) ==
    IF existing_objects \cap AuthoritativeTables = {}
    THEN existing_objects \cup SchemaSql
    ELSE existing_objects

\* Repository.__init__ on a fresh database file.
Schema == ensure_schema({})

\* A plausible slip: the connection is opened without the pragma, and
\* SQLite's default is foreign_keys = OFF.
get_connection_without_pragma == [foreign_keys |-> FALSE, row_factory |-> "Row"]

\* Repository._get_connection: PRAGMA foreign_keys = ON, row_factory = Row.
get_connection == [foreign_keys |-> TRUE, row_factory |-> "Row"]

\* ------------------------------------------------------------------ state

\* The database a call sees.
Db == [sessions |-> sessions, kpi_templates |-> kpi_templates,
       club_subsessions |-> club_subsessions, projections |-> projections]

Range(seq) == {seq[i] : i \in 1..Len(seq)}

\* datetime.utcnow() as a column of one table sees it: a row committed later
\* carries a later instant.  The code never compares the timestamp columns of
\* different tables, so each table has a logical clock of its own.
Now(rows) == 1 + Len(rows)

\* The rowid SQLite assigns to a new row of an INTEGER PRIMARY KEY table.
RECURSIVE MaxOf(_)
MaxOf(S) == IF S = {} THEN 0
            ELSE LET x == CHOOSE y \in S : TRUE
                     m == MaxOf(S \ {x})
                 IN IF x > m THEN x ELSE m

NextSessionId(db) == MaxOf({r.session_id : r \in Range(db.sessions)}) + 1
NextSubsessionId(db) == MaxOf({r.subsession_id : r \in Range(db.club_subsessions)}) + 1

\* The outcome of a call: the value it returned (ret = Some(value), where the
\* value of a get is itself a row or None) or the exception it raised.
Ok(value) == [status |-> "ok", violations |-> {}, ret |-> Some(value)]
Raise(exception, violations) == [status |-> exception, violations |-> violations, ret |-> NULL]

\* A call's effect: the database after it and its outcome.
Result(db, outcome) == [db |-> db, outcome |-> outcome]

\* ------------------------------------------------------------------ storage layer

\* The constraints of club_subsessions a new row violates, as SQLite finds
\* them under the schema and the connection's pragma.
SubsessionViolations(db, conn, row) ==
    (IF "check:a_count+b_count+c_count=shot_count" \in Schema
        /\ row.a_count + row.b_count + row.c_count # row.shot_count
     THEN {"CHECK:counts"} ELSE {})
    \cup
    (IF "check:a_percentage_null_iff_invalid" \in Schema
        /\ ((row.a_percentage = NULL) # (row.validity_status = "invalid_insufficient_data"))
     THEN {"CHECK:a_percentage"} ELSE {})
    \cup
    (IF "unique:club_subsessions(session_id,club,kpi_template_hash)" \in Schema
        /\ \E r \in Range(db.club_subsessions) :
              /\ r.session_id = row.session_id
              /\ r.club = row.club
              /\ r.kpi_template_hash = row.kpi_template_hash
     THEN {"UNIQUE"} ELSE {})
    \cup
    (IF "fk:club_subsessions.session_id->sessions" \in Schema
        /\ conn.foreign_keys
        /\ ~ \E s \in Range(db.sessions) : s.session_id = row.session_id
     THEN {"FOREIGN KEY:session_id"} ELSE {})
    \cup
    (IF "fk:club_subsessions.kpi_template_hash->kpi_templates" \in Schema
        /\ conn.foreign_keys
        /\ ~ \E t \in Range(db.kpi_templates) : t.template_hash = row.kpi_template_hash
     THEN {"FOREIGN KEY:kpi_template_hash"} ELSE {})

\* The constraints of kpi_templates a new row violates: template_hash is the
\* primary key.
TemplateViolations(db, row) ==
    IF "pk:kpi_templates.template_hash" \in Schema
       /\ \E t \in Range(db.kpi_templates) : t.template_hash = row.template_hash
    THEN {"UNIQUE"} ELSE {}

\* The column that identifies a row of each table.
KeyOf(table) ==
    CASE table = "sessions" -> "session_id"
      [] table = "kpi_templates" -> "template_hash"
      [] table = "club_subsessions" -> "subsession_id"

\* PRAGMA foreign_key_list(table): the tables the foreign keys of a table
\* refer to.
foreign_key_list(table) ==
    {target \in AuthoritativeTables \cup {"projections"} :
        \E column \in {"session_id", "kpi_template_hash", "subsession_id"} :
            ("fk:" \o table \o "." \o column \o "->" \o target) \in Schema}

\* UPDATE table SET field = value WHERE key = ?, issued on any connection.
\* The BEFORE UPDATE trigger fires for each matching row and aborts the
\* statement; without a matching row nothing fires and nothing changes.
SqlUpdate(db, table, key, field, value) ==
    LET rows == db[table]
        hit == \E i \in 1..Len(rows) : rows[i][KeyOf(table)] = key
    IN IF hit /\ ("trg_no_update:" \o table) \in Schema
       THEN Result(db, Raise("IntegrityError", {"immutable"}))
       ELSE Result([db EXCEPT ![table] =
                       [i \in 1..Len(rows) |->
                           IF rows[i][KeyOf(table)] = key
                           THEN [rows[i] EXCEPT ![field] = value]
                           ELSE rows[i]]],
                   Ok(IF hit THEN 1 ELSE 0))

\* DELETE FROM table WHERE key = ?, issued on any connection.
SqlDelete(db, table, key) ==
    LET rows == db[table]
        hit == \E i \in 1..Len(rows) : rows[i][KeyOf(table)] = key
    IN IF hit /\ ("trg_no_delete:" \o table) \in Schema
       THEN Result(db, Raise("IntegrityError", {"immutable"}))
       ELSE Result([db EXCEPT ![table] =
                       SelectSeq(rows, LAMBDA r : r[KeyOf(table)] # key)],
                   Ok(IF hit THEN 1 ELSE 0))

\* ------------------------------------------------------------------ sessions

\* Repository.insert_session: INSERT INTO sessions, commit, return lastrowid.
insert_session(db, session_date, source_file, device_type, location) ==
    LET row == [session_id |-> NextSessionId(db),
                session_date |-> session_date,
                source_file |-> source_file,
                device_type |-> device_type,
                location |-> location,
                ingested_at |-> Now(db.sessions)]
    IN Result([db EXCEPT !.sessions = Append(@, row)], Ok(row.session_id))

\* A plausible slip: get-or-create, a placeholder row for an unknown id.
get_session_or_create(db, session_id) ==
    LET rows == SelectSeq(db.sessions, LAMBDA r : r.session_id = session_id)
    IN IF rows # <<>>
       THEN Result(db, Ok(Some(rows[1])))
       ELSE insert_session(db, 1, "unknown", NULL, NULL)

\* Repository.get_session: SELECT * FROM sessions WHERE session_id = ?,
\* the row as a dict or None.
get_session(db, session_id) ==
    LET rows == SelectSeq(db.sessions, LAMBDA r : r.session_id = session_id)
    IN Result(db, Ok(IF rows # <<>> THEN Some(rows[1]) ELSE NULL))

\* ------------------------------------------------------------------ templates

\* Repository.insert_template: a plain INSERT INTO kpi_templates of the
\* caller's hash and content, commit, return the hash.  The connection's
\* context manager rolls the transaction back when the INSERT raises.
insert_template(db, template_hash, schema_version, club, canonical_json) ==
    LET row == [template_hash |-> template_hash,
                schema_version |-> schema_version,
                club |-> club,
                canonical_json |-> canonical_json,
                created_at |-> Now(db.kpi_templates),
                imported_at |-> NULL]
        violations == TemplateViolations(db, row)
    IN IF violations # {}
       THEN Result(db, Raise("IntegrityError", violations))
       ELSE Result([db EXCEPT !.kpi_templates = Append(@, row)], Ok(template_hash))

\* A plausible slip: the read re-derives the hash from the stored content
\* and returns that instead of the stored column.
get_template_rehashed(db, template_hash) ==
    LET rows == SelectSeq(db.kpi_templates, LAMBDA r : r.template_hash = template_hash)
    IN Result(db, Ok(IF rows # <<>>
                     THEN Some([rows[1] EXCEPT !.template_hash = "sha256:" \o rows[1].canonical_json])
                     ELSE NULL))

\* Repository.get_template: SELECT * FROM kpi_templates WHERE template_hash = ?.
\* The stored hash is returned as it is.
get_template(db, template_hash) ==
    LET rows == SelectSeq(db.kpi_templates, LAMBDA r : r.template_hash = template_hash)
    IN Result(db, Ok(IF rows # <<>> THEN Some(rows[1]) ELSE NULL))

\* ------------------------------------------------------------------ sub-sessions

\* A plausible slip: a missing percentage is bound as 0.0
\* (a_percentage or 0.0).
SubsessionRow_percentage_defaulted(db, a) ==
    [subsession_id |-> NextSubsessionId(db),
     session_id |-> a.session_id,
     club |-> a.club,
     kpi_template_hash |-> a.kpi_template_hash,
     shot_count |-> a.shot_count,
     validity_status |-> a.validity_status,
     a_count |-> a.a_count,
     b_count |-> a.b_count,
     c_count |-> a.c_count,
     a_percentage |-> IF a.a_percentage = NULL THEN Some(0) ELSE a.a_percentage,
     avg_carry |-> a.avg_carry,
     avg_ball_speed |-> a.avg_ball_speed,
     avg_spin |-> a.avg_spin,
     avg_descent |-> a.avg_descent,
     analyzed_at |-> Now(db.club_subsessions)]

\* A plausible slip: the total is bound as the sum of the grade counts
\* instead of the caller's shot_count.
SubsessionRow_shot_count_summed(db, a) ==
    [subsession_id |-> NextSubsessionId(db),
     session_id |-> a.session_id,
     club |-> a.club,
     kpi_template_hash |-> a.kpi_template_hash,
     shot_count |-> a.a_count + a.b_count + a.c_count,
     validity_status |-> a.validity_status,
     a_count |-> a.a_count,
     b_count |-> a.b_count,
     c_count |-> a.c_count,
     a_percentage |-> a.a_percentage,
     avg_carry |-> a.avg_carry,
     avg_ball_speed |-> a.avg_ball_speed,
     avg_spin |-> a.avg_spin,
     avg_descent |-> a.avg_descent,
     analyzed_at |-> Now(db.club_subsessions)]

\* The row insert_subsession's INSERT names: its columns and the values
\* bound to them, in the statement's order; analyzed_at defaults to now.
SubsessionRow(db, a) ==
    [subsession_id |-> NextSubsessionId(db),
     session_id |-> a.session_id,
     club |-> a.club,
     kpi_template_hash |-> a.kpi_template_hash,
     shot_count |-> a.shot_count,
     validity_status |-> a.validity_status,
     a_count |-> a.a_count,
     b_count |-> a.b_count,
     c_count |-> a.c_count,
     a_percentage |-> a.a_percentage,
     avg_carry |-> a.avg_carry,
     avg_ball_speed |-> a.avg_ball_speed,
     avg_spin |-> a.avg_spin,
     avg_descent |-> a.avg_descent,
     analyzed_at |-> Now(db.club_subsessions)]

SameTriple(r, row) ==
    /\ r.session_id = row.session_id
    /\ r.club = row.club
    /\ r.kpi_template_hash = row.kpi_template_hash

\* A plausible slip: INSERT OR REPLACE, which resolves a uniqueness
\* conflict by deleting the row in the way.
insert_subsession_or_replace(db, a) ==
    LET row == SubsessionRow(db, a)
        violations == SubsessionViolations(db, get_connection, row) \ {"UNIQUE"}
    IN IF violations # {}
       THEN Result(db, Raise("IntegrityError", violations))
       ELSE Result([db EXCEPT !.club_subsessions =
                       Append(SelectSeq(@, LAMBDA r : ~SameTriple(r, row)), row)],
                   Ok(row.subsession_id))

\* Repository.insert_subsession: a plain INSERT INTO club_subsessions on a
\* connection from _get_connection, commit, return lastrowid.  A violated
\* constraint raises sqlite3.IntegrityError and the connection's context
\* manager rolls the transaction back.
insert_subsession(db, a) ==
    LET row == SubsessionRow(db, a)
        violations == SubsessionViolations(db, get_connection, row)
    IN IF violations # {}
       THEN Result(db, Raise("IntegrityError", violations))
       ELSE Result([db EXCEPT !.club_subsessions = Append(@, row)],
                   Ok(row.subsession_id))

\* A plausible slip: the sub-session is read joined to its cached
\* projection (INNER JOIN projections), so a row without one is not found.
get_subsession_joined_to_projection(db, subsession_id) ==
    LET rows == SelectSeq(db.club_subsessions, LAMBDA r :
                    /\ r.subsession_id = subsession_id
                    /\ \E p \in Range(db.projections) : p.subsession_id = subsession_id)
    IN Result(db, Ok(IF rows # <<>> THEN Some(rows[1]) ELSE NULL))

\* Repository.get_subsession: SELECT * FROM club_subsessions WHERE subsession_id = ?.
get_subsession(db, subsession_id) ==
    LET rows == SelectSeq(db.club_subsessions, LAMBDA r : r.subsession_id = subsession_id)
    IN Result(db, Ok(IF rows # <<>> THEN Some(rows[1]) ELSE NULL))

\* Byte order of the club labels ('7' < 'P'), for ORDER BY club.
ClubRank(club) == CASE club = "7i" -> 1 [] club = "PW" -> 2

\* A stable sort of rows by an integer key, ascending: rows with equal keys
\* keep their order (list.sort; for ORDER BY, the table's rowid order).
RECURSIVE InsertByKey(_, _)
InsertByKey(sorted, item) ==
    IF sorted = <<>> THEN <<item>>
    ELSE IF item.k < sorted[Len(sorted)].k
         THEN Append(InsertByKey(SubSeq(sorted, 1, Len(sorted) - 1), item),
                     sorted[Len(sorted)])
         ELSE Append(sorted, item)

RECURSIVE SortByKey(_)
SortByKey(items) ==
    IF items = <<>> THEN <<>>
    ELSE InsertByKey(SortByKey(SubSeq(items, 1, Len(items) - 1)), items[Len(items)])

Rows(items) == [i \in 1..Len(items) |-> items[i].row]

\* A plausible slip: one row per club (GROUP BY club), the latest analysis.
list_subsessions_by_session_latest(db, session_id) ==
    LET rows == SelectSeq(db.club_subsessions, LAMBDA r : r.session_id = session_id)
        latest == SelectSeq(rows, LAMBDA r :
                     ~ \E q \in Range(rows) : q.club = r.club /\ q.subsession_id > r.subsession_id)
        keyed == [i \in 1..Len(latest) |-> [k |-> ClubRank(latest[i].club), row |-> latest[i]]]
    IN Result(db, Ok(Rows(SortByKey(keyed))))

\* Repository.list_subsessions_by_session:
\* SELECT * FROM club_subsessions WHERE session_id = ? ORDER BY club.
list_subsessions_by_session(db, session_id) ==
    LET rows == SelectSeq(db.club_subsessions, LAMBDA r : r.session_id = session_id)
        keyed == [i \in 1..Len(rows) |-> [k |-> ClubRank(rows[i].club), row |-> rows[i]]]
    IN Result(db, Ok(Rows(SortByKey(keyed))))

\* validity_order of list_subsessions_by_club.
ValidityRank(status) ==
    CASE status = "invalid_insufficient_data" -> 0
      [] status = "valid_low_sample_warning" -> 1
      [] status = "valid" -> 2

\* A plausible slip: the rows that rank strictly above min_validity.
list_subsessions_by_club_above(db, club, min_validity) ==
    LET ofClub == SelectSeq(db.club_subsessions, LAMBDA r : r.club = club)
        keyed(rows) == [i \in 1..Len(rows) |-> [k |-> rows[i].analyzed_at, row |-> rows[i]]]
    IN IF min_validity = NULL
       THEN Result(db, Ok(Rows(SortByKey(keyed(ofClub)))))
       ELSE IF min_validity[1] \notin ValidityStatuses
       THEN Result(db, Raise("ValueError", {}))
       ELSE LET rows == SelectSeq(ofClub, LAMBDA r :
                            ValidityRank(r.validity_status) > ValidityRank(min_validity[1]))
            IN Result(db, Ok(Rows(SortByKey(keyed(rows)))))

\* Repository.list_subsessions_by_club: every row of the club when
\* min_validity is None; ValueError for an unknown min_validity; otherwise the
\* rows whose status ranks at or above it.  ORDER BY analyzed_at.
list_subsessions_by_club(db, club, min_validity) ==
    LET ofClub == SelectSeq(db.club_subsessions, LAMBDA r : r.club = club)
        keyed(rows) == [i \in 1..Len(rows) |-> [k |-> rows[i].analyzed_at, row |-> rows[i]]]
    IN IF min_validity = NULL
       THEN Result(db, Ok(Rows(SortByKey(keyed(ofClub)))))
       ELSE IF min_validity[1] \notin ValidityStatuses
       THEN Result(db, Raise("ValueError", {}))
       ELSE LET allowed == {st \in ValidityStatuses :
                               ValidityRank(st) >= ValidityRank(min_validity[1])}
                rows == SelectSeq(ofClub, LAMBDA r : r.validity_status \in allowed)
            IN Result(db, Ok(Rows(SortByKey(keyed(rows)))))

\* Repository.list_templates_by_club:
\* SELECT * FROM kpi_templates WHERE club = ? ORDER BY created_at.
list_templates_by_club(db, club) ==
    LET rows == SelectSeq(db.kpi_templates, LAMBDA r : r.club = club)
        keyed == [i \in 1..Len(rows) |-> [k |-> rows[i].created_at, row |-> rows[i]]]
    IN Result(db, Ok(Rows(SortByKey(keyed))))

\* ------------------------------------------------------------------ projections

\* generate_projection_for_subsession: the sub-session and its parent session
\* are read through the repository and combined, with the time of
\* generation; ValueError when either is absent.
generate_projection_for_subsession(db, subsession_id) ==
    LET sub == get_subsession(db, subsession_id).outcome.ret[1]
    IN IF sub = NULL
       THEN Result(db, Raise("ValueError", {}))
       ELSE LET session == get_session(db, sub[1].session_id).outcome.ret[1]
            IN IF session = NULL
               THEN Result(db, Raise("ValueError", {}))
               ELSE Result(db, Ok(
                    [session_date |-> session[1].session_date,
                     club |-> sub[1].club,
                     shot_count |-> sub[1].shot_count,
                     validity_status |-> sub[1].validity_status,
                     a_count |-> sub[1].a_count,
                     b_count |-> sub[1].b_count,
                     c_count |-> sub[1].c_count,
                     a_percentage |-> sub[1].a_percentage,
                     avg_carry |-> sub[1].avg_carry,
                     avg_ball_speed |-> sub[1].avg_ball_speed,
                     avg_spin |-> sub[1].avg_spin,
                     avg_descent |-> sub[1].avg_descent,
                     kpi_template_hash |-> sub[1].kpi_template_hash,
                     analyzed_at |-> sub[1].analyzed_at,
                     generated_at |-> Now(db.club_subsessions)]))

\* The keys of a projection in the order json.dumps(sort_keys=True) emits them.
ProjectionKeysSorted ==
    <<"a_count", "a_percentage", "analyzed_at", "avg_ball_speed", "avg_carry",
      "avg_descent", "avg_spin", "b_count", "c_count", "club", "generated_at",
      "kpi_template_hash", "session_date", "shot_count", "validity_status">>

\* serialize_projection: compact JSON with sorted keys, as the sequence of
\* its key/value members.
serialize_projection(projection_dict) ==
    [i \in 1..Len(ProjectionKeysSorted) |->
        <<ProjectionKeysSorted[i], projection_dict[ProjectionKeysSorted[i]]>>]

\* A plausible slip: the import is implemented, and writes the projection's
\* fields back as a sub-session of the first session.
import_projection_as_subsession(db, projection_json) ==
    IF Len(projection_json) # Len(ProjectionKeysSorted) \/ db.sessions = <<>>
    THEN Result(db, Raise("ProjectionImportError", {}))
    ELSE LET f(key) == projection_json[CHOOSE i \in 1..Len(projection_json) :
                                           projection_json[i][1] = key][2]
             row == [subsession_id |-> NextSubsessionId(db),
                     session_id |-> db.sessions[1].session_id,
                     club |-> f("club"),
                     kpi_template_hash |-> f("kpi_template_hash"),
                     shot_count |-> f("shot_count"),
                     validity_status |-> f("validity_status"),
                     a_count |-> f("a_count"),
                     b_count |-> f("b_count"),
                     c_count |-> f("c_count"),
                     a_percentage |-> f("a_percentage"),
                     avg_carry |-> f("avg_carry"),
                     avg_ball_speed |-> f("avg_ball_speed"),
                     avg_spin |-> f("avg_spin"),
                     avg_descent |-> f("avg_descent"),
                     analyzed_at |-> f("analyzed_at")]
         IN Result([db EXCEPT !.club_subsessions = Append(@, row)], Ok(NULL))

\* import_projection: the argument is ignored and ProjectionImportError is
\* raised; the function holds no repository and issues no statement.
import_projection(db, projection_json) ==
    Result(db, Raise("ProjectionImportError", {}))

\* The projection cache of the repository (upsert_projection, get_projection,
\* delete_projection, and DELETE FROM projections): a table keyed by
\* subsession_id that no authoritative table refers to.
upsert_projection(db, subsession_id, projection_json, generated_at) ==
    Result([db EXCEPT !.projections =
               Append(SelectSeq(@, LAMBDA r : r.subsession_id # subsession_id),
                      [subsession_id |-> subsession_id,
                       projection_json |-> projection_json,
                       generated_at |-> generated_at])],
           Ok(NULL))

get_projection(db, subsession_id) ==
    LET rows == SelectSeq(db.projections, LAMBDA r : r.subsession_id = subsession_id)
    IN Result(db, Ok(IF rows # <<>> THEN Some(rows[1]) ELSE NULL))

delete_projection(db, subsession_id) ==
    Result([db EXCEPT !.projections =
               SelectSeq(@, LAMBDA r : r.subsession_id # subsession_id)],
           Ok(\E r \in Range(db.projections) : r.subsession_id = subsession_id))

delete_all_projections(db) ==
    Result([db EXCEPT !.projections = <<>>], Ok(Len(db.projections)))

\* ------------------------------------------------------------------ trends

RECURSIVE SumSeq(_)
SumSeq(ns) == IF ns = <<>> THEN 0 ELSE ns[1] + SumSeq(Tail(ns))

\* A plausible slip: a point without a percentage counts as 0 percent, so its
\* shots enter the denominator.
weighted_average_null_as_zero(data_points, weighted) ==
    IF data_points = <<>> THEN NULL
    ELSE Some([num |-> SumSeq([i \in 1..Len(data_points) |->
                                 IF data_points[i].a_percentage = NULL THEN 0
                                 ELSE data_points[i].a_percentage[1] * data_points[i].shot_count]),
               den |-> SumSeq([i \in 1..Len(data_points) |-> data_points[i].shot_count])])

\* compute_club_trend, the average of a_percentage over the points that have
\* one: weighted by shot_count (a quotient, kept as numerator and
\* denominator), or plain; None without such a point.
weighted_average(data_points, weighted) ==
    LET valid_points == SelectSeq(data_points, LAMBDA dp : dp.a_percentage # NULL)
        total_weighted == SumSeq([i \in 1..Len(valid_points) |->
                              valid_points[i].a_percentage[1] * valid_points[i].shot_count])
        total_shots_valid == SumSeq([i \in 1..Len(valid_points) |-> valid_points[i].shot_count])
    IN IF weighted
       THEN IF valid_points # <<>> /\ total_shots_valid > 0
            THEN Some([num |-> total_weighted, den |-> total_shots_valid])
            ELSE NULL
       ELSE IF valid_points # <<>>
            THEN Some([num |-> SumSeq([i \in 1..Len(valid_points) |->
                                          valid_points[i].a_percentage[1]]),
                       den |-> Len(valid_points)])
            ELSE NULL

\* compute_club_trend: the club's sub-sessions at or above min_validity,
\* joined to their session's date (a sub-session without session is
\* skipped), sorted by date; with window = N > 0 and more than N distinct
\* dates, only the points from the N-th latest date on; the average of
\* a_percentage over the points that have one, weighted by shot_count (a
\* quotient, kept as numerator and denominator) or plain.
compute_club_trend(db, club, min_validity, window, weighted) ==
    LET listed == list_subsessions_by_club(db, club, min_validity).outcome
    IN IF listed.status # "ok"
       THEN Result(db, Raise(listed.status, {}))
       ELSE IF listed.ret[1] = <<>>
       THEN Result(db, Raise("ValueError", {}))
       ELSE
       LET subsessions == listed.ret[1]
           joined == SelectSeq(subsessions, LAMBDA sub :
                         get_session(db, sub.session_id).outcome.ret[1] # NULL)
           point(sub) ==
               [session_date |-> get_session(db, sub.session_id).outcome.ret[1][1].session_date,
                a_percentage |-> sub.a_percentage,
                shot_count |-> sub.shot_count,
                validity_status |-> sub.validity_status,
                session_id |-> sub.session_id,
                subsession_id |-> sub.subsession_id]
           sorted == Rows(SortByKey([i \in 1..Len(joined) |->
                         [k |-> point(joined[i]).session_date, row |-> point(joined[i])]]))
           session_dates == {dp.session_date : dp \in Range(sorted)}
           windowed ==
               IF window # NULL /\ window[1] > 0 /\ Cardinality(session_dates) > window[1]
               THEN LET cutoff_date == CHOOSE d \in session_dates :
                            Cardinality({x \in session_dates : x >= d}) = window[1]
                    IN SelectSeq(sorted, LAMBDA dp : dp.session_date >= cutoff_date)
               ELSE sorted
       IN Result(db, Ok(
            [club |-> club,
             data_points |-> windowed,
             weighted_avg_a_percent |-> weighted_average(windowed, weighted),
             total_sessions |-> Cardinality({dp.session_id : dp \in Range(windowed)}),
             total_shots |-> SumSeq([i \in 1..Len(windowed) |-> windowed[i].shot_count]),
             min_validity_filter |-> min_validity]))

\* ------------------------------------------------------------------ actions

\* The inputs the actions draw from.
SessionIds == 1..(MaxSessions + 1)
SubsessionIds == 1..(MaxSubsessions + 1)
MinValidities == {NULL, Some("valid_low_sample_warning"), Some("valid"), Some("unknown")}
Windows == {NULL, Some(1)}

SubsessionArgs ==
    [session_id : SessionIds, club : Clubs, kpi_template_hash : Hashes,
     shot_count : ShotCounts, validity_status : ValidityStatuses,
     a_count : ACounts, b_count : BCounts, c_count : CCounts,
     a_percentage : APercentages,
     avg_carry : {NULL}, avg_ball_speed : {NULL}, avg_spin : {NULL}, avg_descent : {NULL}]

WithinBounds(db) ==
    /\ Len(db.sessions) <= MaxSessions
    /\ Len(db.kpi_templates) <= MaxTemplates
    /\ Len(db.club_subsessions) <= MaxSubsessions
    /\ Len(db.projections) <= MaxProjections

\* A call has run: the database is what the call left, and last is what the
\* caller saw (the value a read returned is not kept in the state).
Apply(op, r, keep) ==
    /\ WithinBounds(r.db)
    /\ sessions' = r.db.sessions
    /\ kpi_templates' = r.db.kpi_templates
    /\ club_subsessions' = r.db.club_subsessions
    /\ projections' = r.db.projections
    /\ last' = [op |-> op, status |-> r.outcome.status,
                violations |-> r.outcome.violations,
                ret |-> IF keep THEN r.outcome.ret ELSE NULL]
    /\ UNCHANGED <<writers, call>>

InsertSession(session_date) ==
    Apply("insert_session", insert_session(Db, session_date, "test.csv", NULL, NULL), TRUE)

InsertTemplate(template_hash, club, canonical_json) ==
    Apply("insert_template", insert_template(Db, template_hash, "1.0", club, canonical_json), TRUE)

InsertSubsession(a) ==
    Apply("insert_subsession", insert_subsession(Db, a), TRUE)

\* UPDATE and DELETE statements a caller issues on a connection of its own,
\* past the repository (sqlite3.connect(db_path), PRAGMA foreign_keys = ON).
RawUpdate(table, key, field, value) ==
    Apply("raw_update", SqlUpdate(Db, table, key, field, value), TRUE)

RawDelete(table, key) ==
    Apply("raw_delete", SqlDelete(Db, table, key), TRUE)

GetSession(session_id) ==
    Apply("get_session", get_session(Db, session_id), FALSE)

GetTemplate(template_hash) ==
    Apply("get_template", get_template(Db, template_hash), FALSE)

ListTemplatesByClub(club) ==
    Apply("list_templates_by_club", list_templates_by_club(Db, club), FALSE)

GetSubsession(subsession_id) ==
    Apply("get_subsession", get_subsession(Db, subsession_id), FALSE)

ListSubsessionsBySession(session_id) ==
    Apply("list_subsessions_by_session", list_subsessions_by_session(Db, session_id), FALSE)

ListSubsessionsByClub(club, min_validity) ==
    Apply("list_subsessions_by_club", list_subsessions_by_club(Db, club, min_validity), FALSE)

GenerateProjection(subsession_id) ==
    Apply("generate_projection_for_subsession",
          generate_projection_for_subsession(Db, subsession_id), FALSE)

ComputeClubTrend(club, min_validity, window, weighted) ==
    Apply("compute_club_trend", compute_club_trend(Db, club, min_validity, window, weighted), FALSE)

\* What a caller can hand to import_projection: the serialization of a
\* projection just generated from the ledger, or anything else.
ImportInputs ==
    {<<>>, <<<<"club", "7i">>>>}
    \cup {serialize_projection(generate_projection_for_subsession(Db, r.subsession_id).outcome.ret[1]) :
            r \in Range(club_subsessions)}

ImportProjection(projection_json) ==
    Apply("import_projection", import_projection(Db, projection_json), FALSE)

\* A projection is generated, serialized and cached (the export path).
CacheProjection(subsession_id) ==
    LET generated == generate_projection_for_subsession(Db, subsession_id).outcome
    IN /\ generated.status = "ok"
       /\ Apply("upsert_projection",
                upsert_projection(Db, subsession_id,
                                  serialize_projection(generated.ret[1]),
                                  generated.ret[1].generated_at), FALSE)

DeleteProjection(subsession_id) ==
    Apply("delete_projection", delete_projection(Db, subsession_id), TRUE)

DeleteAllProjections ==
    Apply("delete_all_projections", delete_all_projections(Db), TRUE)

\* The callers of insert_subsession that run at the same time, each on a
\* connection of its own, and where each of them is in the method.
Writers == 1..MaxWriters
IdleWriter == [pc |-> "idle", args |-> NULL, analyzed_at |-> NULL, row |-> NULL, outcome |-> NULL]

\* The call of a function of the canonicalizer, the hasher or the classifier
\* under study: its name, its argument and, once it has run, its outcome.
NoCall == [fn |-> "none", arg |-> NULL, out |-> NULL]

Init ==
    /\ sessions = <<>>
    /\ kpi_templates = <<>>
    /\ club_subsessions = <<>>
    /\ projections = <<>>
    /\ last = [op |-> "init", status |-> "ok", violations |-> {}, ret |-> NULL]
    /\ writers = [w \in Writers |-> IdleWriter]
    /\ call = NoCall

\* The write paths of the ledger: the repository's inserts, and UPDATE and
\* DELETE statements issued past it.
NextLedger ==
    \/ \E d \in SessionDates : InsertSession(d)
    \/ \E h \in Hashes, c \in Clubs, j \in Jsons : InsertTemplate(h, c, j)
    \/ \E a \in SubsessionArgs : InsertSubsession(a)
    \/ \E k \in SessionIds, v \in SessionIds : RawUpdate("sessions", k, "session_date", v)
    \/ \E k \in SessionIds : RawUpdate("sessions", k, "source_file", "modified.csv")
    \/ \E h \in Hashes : RawUpdate("kpi_templates", h, "canonical_json", "modified")
    \/ \E h \in Hashes, v \in Clubs : RawUpdate("kpi_templates", h, "club", v)
    \/ \E k \in SubsessionIds : RawUpdate("club_subsessions", k, "a_count", 15)
    \/ \E k \in SubsessionIds, v \in Hashes : RawUpdate("club_subsessions", k, "kpi_template_hash", v)
    \/ \E k \in SessionIds : RawDelete("sessions", k)
    \/ \E h \in Hashes : RawDelete("kpi_templates", h)
    \/ \E k \in SubsessionIds : RawDelete("club_subsessions", k)

Spec == Init /\ [][NextLedger]_vars

\* The arguments the ingestion path passes to insert_subsession: the grade
\* counts of the shots it counted, and a percentage that goes with the status.
WellFormedSubsessionArgs ==
    {a \in SubsessionArgs :
        /\ a.a_count + a.b_count + a.c_count = a.shot_count
        /\ (a.a_percentage = NULL) = (a.validity_status = "invalid_insufficient_data")}

\* The read paths: the ledger is filled through the repository and read
\* through its get and list methods, the projection layer and the trend
\* aggregator.
NextReads ==
    \/ \E d \in SessionDates : InsertSession(d)
    \/ \E h \in Hashes, c \in Clubs, j \in Jsons : InsertTemplate(h, c, j)
    \/ \E a \in WellFormedSubsessionArgs : InsertSubsession(a)
    \/ \E id \in SessionIds : GetSession(id)
    \/ \E h \in Hashes : GetTemplate(h)
    \/ \E c \in Clubs : ListTemplatesByClub(c)
    \/ \E id \in SubsessionIds : GetSubsession(id)
    \/ \E id \in SessionIds : ListSubsessionsBySession(id)
    \/ \E c \in Clubs, mv \in MinValidities : ListSubsessionsByClub(c, mv)
    \/ \E id \in SubsessionIds : GenerateProjection(id)
    \/ \E c \in Clubs, mv \in MinValidities, w \in Windows, wt \in BOOLEAN :
          ComputeClubTrend(c, mv, w, wt)

SpecReads == Init /\ [][NextReads]_vars

\* The derived data: projections of the ledger's sub-sessions are cached,
\* deleted and offered for import.
NextDerived ==
    \/ \E d \in SessionDates : InsertSession(d)
    \/ \E h \in Hashes, c \in Clubs, j \in Jsons : InsertTemplate(h, c, j)
    \/ \E a \in WellFormedSubsessionArgs : InsertSubsession(a)
    \/ \E p \in ImportInputs : ImportProjection(p)
    \/ \E id \in SubsessionIds : CacheProjection(id)
    \/ \E id \in SubsessionIds : DeleteProjection(id)
    \/ DeleteAllProjections

SpecDerived == Init /\ [][NextDerived]_vars

\* ------------------------------------------------------------------ concurrent writers

\* A plausible slip: the INSERT does not wait for the write transaction of
\* another connection (a connection shared by the callers, or a check made
\* outside the transaction).
write_lock_free_always(ws, w) == TRUE

\* The write lock of the database file, as the connection of caller w finds
\* it: the INSERT opens the connection's write transaction, and waits while
\* the write transaction of another connection is open.
write_lock_free(ws, w) ==
    \A v \in DOMAIN ws : v # w => ws[v].pc # "inserted"

\* insert_subsession is entered: analyzed_at defaults to the time of the
\* call.  The callers pass the id of a session they inserted and the hash of
\* a template they looked up.
CallInsertSubsession(w, a) ==
    /\ writers[w].pc = "idle"
    /\ (\E t \in Range(sessions) : t.session_id = a.session_id)
    /\ (\E t \in Range(kpi_templates) : t.template_hash = a.kpi_template_hash)
    /\ writers' = [writers EXCEPT ![w] =
                      [pc |-> "called", args |-> Some(a),
                       analyzed_at |-> Some(Now(club_subsessions)),
                       row |-> NULL, outcome |-> NULL]]
    /\ UNCHANGED <<sessions, kpi_templates, club_subsessions, projections, last, call>>

\* conn.execute(INSERT ...) on the caller's connection: the statement takes
\* the write lock and checks the row against the committed tables; a
\* violated constraint raises IntegrityError and the context manager rolls
\* back, otherwise the row is written in the open transaction.
ExecuteInsert(w) ==
    /\ writers[w].pc = "called"
    /\ write_lock_free(writers, w)
    /\ Len(club_subsessions) < MaxSubsessions
    /\ LET row == [SubsessionRow(Db, writers[w].args[1]) EXCEPT
                      !.analyzed_at = writers[w].analyzed_at[1]]
           violations == SubsessionViolations(Db, get_connection, row)
       IN writers' = [writers EXCEPT ![w] =
                         IF violations # {}
                         THEN [@ EXCEPT !.pc = "done",
                                        !.outcome = Some(Raise("IntegrityError", violations))]
                         ELSE [@ EXCEPT !.pc = "inserted", !.row = Some(row)]]
    /\ UNCHANGED <<sessions, kpi_templates, club_subsessions, projections, last, call>>

\* conn.commit() and return cursor.lastrowid: the row becomes part of the
\* table and the write lock is released.
CommitInsert(w) ==
    /\ writers[w].pc = "inserted"
    /\ club_subsessions' = Append(club_subsessions, writers[w].row[1])
    /\ writers' = [writers EXCEPT ![w] =
                      [@ EXCEPT !.pc = "done",
                                !.outcome = Some(Ok(writers[w].row[1].subsession_id))]]
    /\ UNCHANGED <<sessions, kpi_templates, projections, last, call>>

\* Sessions and templates are inserted while the callers run; each of these
\* inserts is a write transaction as well.
NextConcurrent ==
    \/ \E d \in SessionDates : write_lock_free(writers, 0) /\ InsertSession(d)
    \/ \E h \in Hashes, c \in Clubs, j \in Jsons :
          write_lock_free(writers, 0) /\ InsertTemplate(h, c, j)
    \/ \E w \in Writers, a \in WellFormedSubsessionArgs : CallInsertSubsession(w, a)
    \/ \E w \in Writers : ExecuteInsert(w)
    \/ \E w \in Writers : CommitInsert(w)

SpecConcurrent == Init /\ [][NextConcurrent]_vars

\* ------------------------------------------------------------------ canonical numbers

\* A Python str is the sequence of its characters.
DigitChars == <<"0", "1", "2", "3", "4", "5", "6", "7", "8", "9">>

\* str(n) for an int n >= 0.
RECURSIVE Digits(_)
Digits(n) == IF n < 10 THEN <<DigitChars[n + 1]>>
             ELSE Append(Digits(n \div 10), DigitChars[(n % 10) + 1])

\* '0' * k.
Zeros(k) == [i \in 1..k |-> "0"]

\* A plausible slip: the trailing characters are kept.
RStrip_kept(s, c) == s

\* s.rstrip(c).
RECURSIVE RStrip(_, _)
RStrip(s, c) == IF s # <<>> /\ s[Len(s)] = c THEN RStrip(SubSeq(s, 1, Len(s) - 1), c) ELSE s

\* s.lstrip(c), keeping the last character.
RECURSIVE LStrip(_, _)
LStrip(s, c) == IF Len(s) > 1 /\ s[1] = c THEN LStrip(Tail(s), c) ELSE s

\* A decimal.Decimal is what dec.as_tuple() gives: the finite value
\* (-1)^sign * digits * 10^exp, with the digits and the exponent it was
\* written with (Decimal('1.00') has digits 100 and exp -2), or one of the
\* special values.  Decimal(sign, coef, exp) has the digits of the int coef.
DecimalOfDigits(sign, digits, exp) ==
    [special |-> "", sign |-> sign, digits |-> LStrip(digits, "0"), exp |-> exp]
Decimal(sign, coef, exp) == DecimalOfDigits(sign, Digits(coef), exp)
SpecialDecimal(special, sign) == [special |-> special, sign |-> sign, digits |-> <<"0">>, exp |-> 0]

IsZero(dec) == \A i \in 1..Len(dec.digits) : dec.digits[i] = "0"

\* A Python float: a finite float is named by the digits of its repr (the
\* shortest decimal that reads back as the float), as sign, digits without
\* trailing zeros and exp; or it is nan, inf or -inf.
\* Decimal(str(value)) for a float: repr prints an integral float below
\* 10^16 with one fractional zero ('15.0') and every other float with
\* exactly its digits ('0.0015', '1.5e-07', '1e+22').
DecimalOfFloat(f) ==
    IF f.special = "nan" THEN SpecialDecimal("NaN", 0)
    ELSE IF f.special = "inf" THEN SpecialDecimal("Infinity", f.sign)
    ELSE IF f.exp >= 0 /\ Len(f.digits) + f.exp <= 16
         THEN DecimalOfDigits(f.sign, f.digits \o Zeros(f.exp + 1), -1)
         ELSE DecimalOfDigits(f.sign, f.digits, f.exp)

\* Decimal(str(value)) for an int.
DecimalOfInt(n) == Decimal(IF n < 0 THEN 1 ELSE 0, IF n < 0 THEN -n ELSE n, 0)

\* Decimal.__str__ for a finite Decimal: fixed notation when exp <= 0 and
\* the number has more than -6 digits left of the point, otherwise
\* scientific notation with one digit before the point.
decimal_str(dec) ==
    LET digits == dec.digits
        leftdigits == dec.exp + Len(digits)
        dotplace == IF dec.exp <= 0 /\ leftdigits > -6 THEN leftdigits ELSE 1
        intpart == IF dotplace <= 0 THEN <<"0">>
                   ELSE IF dotplace >= Len(digits)
                        THEN digits \o Zeros(dotplace - Len(digits))
                        ELSE SubSeq(digits, 1, dotplace)
        fracpart == IF dotplace <= 0 THEN <<".">> \o Zeros(-dotplace) \o digits
                    ELSE IF dotplace >= Len(digits) THEN <<>>
                         ELSE <<".">> \o SubSeq(digits, dotplace + 1, Len(digits))
        e == leftdigits - dotplace
        exp_str == IF e = 0 THEN <<>>
                   ELSE <<"E", IF e < 0 THEN "-" ELSE "+">> \o Digits(IF e < 0 THEN -e ELSE e)
    IN (IF dec.sign = 1 THEN <<"-">> ELSE <<>>) \o intpart \o fracpart \o exp_str

\* What a call into the canonicalizer gives: a value, or the exception.
Returned(value) == [status |-> "ok", value |-> value]
Raised(exception) == [status |-> exception, value |-> NULL]

\* dec == dec.to_integral_value() for a finite Decimal that is not zero or
\* is Decimal('0').
is_integral(dec) ==
    \/ dec.exp >= 0
    \/ /\ -dec.exp < Len(dec.digits)
       /\ \A i \in (Len(dec.digits) + dec.exp + 1)..Len(dec.digits) : dec.digits[i] = "0"

\* str(int(dec)) for an integral Decimal.
str_int(dec) ==
    (IF dec.sign = 1 THEN <<"-">> ELSE <<>>) \o
    (IF dec.exp >= 0
     THEN (IF IsZero(dec) THEN <<"0">> ELSE dec.digits \o Zeros(dec.exp))
     ELSE SubSeq(dec.digits, 1, Len(dec.digits) + dec.exp))

\* The conversion of scientific notation to fixed-point, from
\* sign, digits, exponent = dec.as_tuple().
fixed_point(sign, digit_str, exponent) ==
    (IF sign = 1 THEN <<"-">> ELSE <<>>) \o
    (IF exponent >= 0 THEN digit_str \o Zeros(exponent)
     ELSE IF -exponent >= Len(digit_str)
          THEN <<"0", ".">> \o Zeros(-exponent - Len(digit_str)) \o digit_str
          ELSE SubSeq(digit_str, 1, Len(digit_str) + exponent) \o <<".">> \o
               SubSeq(digit_str, Len(digit_str) + exponent + 1, Len(digit_str)))

\* result: str_val, or its conversion when it has an 'E' or 'e'.
without_exponent(str_val, dec) ==
    IF "E" \in Range(str_val) \/ "e" \in Range(str_val)
    THEN fixed_point(dec.sign, dec.digits, dec.exp)
    ELSE str_val

\* result.rstrip('0').rstrip('.') if '.' in result.
strip_fraction(result) ==
    IF "." \in Range(result) THEN RStrip(RStrip(result, "0"), ".") ELSE result

\* _format_decimal after the normalization of zero.
format_nonspecial(dec) ==
    IF is_integral(dec) THEN Returned(str_int(dec))
    ELSE Returned(strip_fraction(without_exponent(decimal_str(dec), dec)))

\* _format_decimal.  The comparisons of a signalling NaN raise
\* InvalidOperation; those of a quiet NaN are false, and its str has no
\* 'E', 'e' or '.'; an infinity equals its to_integral_value and int() of
\* it raises OverflowError.
format_decimal(dec) ==
    IF dec.special = "sNaN" THEN Raised("InvalidOperation")
    ELSE IF dec.special = "NaN" THEN Returned(<<"N", "a", "N">>)
    ELSE IF dec.special = "Infinity" THEN Raised("OverflowError")
    ELSE format_nonspecial(IF IsZero(dec) THEN Decimal(0, 0, 0) ELSE dec)

\* ------------------------------------------------------------------ canonical JSON

\* The characters of the model and their code points.
CodePoints ==
    {<<" ", 32>>, <<"\"", 34>>, <<"+", 43>>, <<",", 44>>, <<"-", 45>>, <<".", 46>>,
     <<"/", 47>>, <<"0", 48>>, <<"1", 49>>, <<"2", 50>>, <<"3", 51>>, <<"4", 52>>,
     <<"5", 53>>, <<"6", 54>>, <<"7", 55>>, <<"8", 56>>, <<"9", 57>>, <<":", 58>>,
     <<"E", 69>>, <<"I", 73>>, <<"N", 78>>, <<"P", 80>>, <<"W", 87>>, <<"[", 91>>,
     <<"\\", 92>>, <<"]", 93>>, <<"_", 95>>, <<"a", 97>>, <<"b", 98>>, <<"c", 99>>,
     <<"d", 100>>, <<"e", 101>>, <<"f", 102>>, <<"g", 103>>, <<"h", 104>>, <<"i", 105>>,
     <<"j", 106>>, <<"k", 107>>, <<"l", 108>>, <<"m", 109>>, <<"n", 110>>, <<"o", 111>>,
     <<"p", 112>>, <<"q", 113>>, <<"r", 114>>, <<"s", 115>>, <<"t", 116>>, <<"u", 117>>,
     <<"v", 118>>, <<"w", 119>>, <<"x", 120>>, <<"y", 121>>, <<"z", 122>>, <<"{", 123>>,
     <<"}", 125>>}

\* ord(c).
Ord(c) == (CHOOSE p \in CodePoints : p[1] = c)[2]

\* s < t for two str: by code points, a proper prefix first.
RECURSIVE StrLess(_, _)
StrLess(s, t) ==
    IF t = <<>> THEN FALSE
    ELSE IF s = <<>> THEN TRUE
    ELSE IF s[1] = t[1] THEN StrLess(Tail(s), Tail(t))
    ELSE Ord(s[1]) < Ord(t[1])

\* The strings of the code, as Python str: Chars[s] is the characters of s.
Chars ==
    ("clubs" :> <<"c", "l", "u", "b", "s">>) @@
    ("versions" :> <<"v", "e", "r", "s", "i", "o", "n", "s">>) @@
    ("thresholds" :> <<"t", "h", "r", "e", "s", "h", "o", "l", "d", "s">>) @@
    ("kpi_version" :> <<"k", "p", "i", "_", "v", "e", "r", "s", "i", "o", "n">>) @@
    ("default_kpi_version" :> <<"d", "e", "f", "a", "u", "l", "t", "_", "k", "p", "i", "_", "v", "e", "r", "s", "i", "o", "n">>) @@
    ("a" :> <<"a">>) @@
    ("b" :> <<"b">>) @@
    ("c" :> <<"c">>) @@
    ("v1.0" :> <<"v", "1", ".", "0">>) @@
    ("v2.0" :> <<"v", "2", ".", "0">>) @@
    ("1.0" :> <<"1", ".", "0">>) @@
    ("schema_version" :> <<"s", "c", "h", "e", "m", "a", "_", "v", "e", "r", "s", "i", "o", "n">>) @@
    ("club" :> <<"c", "l", "u", "b">>) @@
    ("metrics" :> <<"m", "e", "t", "r", "i", "c", "s">>) @@
    ("aggregation_method" :> <<"a", "g", "g", "r", "e", "g", "a", "t", "i", "o", "n", "_", "m", "e", "t", "h", "o", "d">>) @@
    ("worst_metric" :> <<"w", "o", "r", "s", "t", "_", "m", "e", "t", "r", "i", "c">>) @@
    ("source" :> <<"s", "o", "u", "r", "c", "e">>) @@
    ("tools/kpis.json" :> <<"t", "o", "o", "l", "s", "/", "k", "p", "i", "s", ".", "j", "s", "o", "n">>) @@
    ("direction" :> <<"d", "i", "r", "e", "c", "t", "i", "o", "n">>) @@
    ("higher_is_better" :> <<"h", "i", "g", "h", "e", "r", "_", "i", "s", "_", "b", "e", "t", "t", "e", "r">>) @@
    ("lower_is_better" :> <<"l", "o", "w", "e", "r", "_", "i", "s", "_", "b", "e", "t", "t", "e", "r">>) @@
    ("ball_speed" :> <<"b", "a", "l", "l", "_", "s", "p", "e", "e", "d">>) @@
    ("smash_factor" :> <<"s", "m", "a", "s", "h", "_", "f", "a", "c", "t", "o", "r">>) @@
    ("spin_rate" :> <<"s", "p", "i", "n", "_", "r", "a", "t", "e">>) @@
    ("descent_angle" :> <<"d", "e", "s", "c", "e", "n", "t", "_", "a", "n", "g", "l", "e">>) @@
    ("a_min" :> <<"a", "_", "m", "i", "n">>) @@
    ("a_max" :> <<"a", "_", "m", "a", "x">>) @@
    ("b_min" :> <<"b", "_", "m", "i", "n">>) @@
    ("b_max" :> <<"b", "_", "m", "a", "x">>) @@
    ("ball_speed_min" :> <<"b", "a", "l", "l", "_", "s", "p", "e", "e", "d", "_", "m", "i", "n">>) @@
    ("ball_speed_max" :> <<"b", "a", "l", "l", "_", "s", "p", "e", "e", "d", "_", "m", "a", "x">>) @@
    ("smash_min" :> <<"s", "m", "a", "s", "h", "_", "m", "i", "n">>) @@
    ("smash_max" :> <<"s", "m", "a", "s", "h", "_", "m", "a", "x">>) @@
    ("spin_min" :> <<"s", "p", "i", "n", "_", "m", "i", "n">>) @@
    ("spin_max" :> <<"s", "p", "i", "n", "_", "m", "a", "x">>) @@
    ("descent_min" :> <<"d", "e", "s", "c", "e", "n", "t", "_", "m", "i", "n">>) @@
    ("descent_max" :> <<"d", "e", "s", "c", "e", "n", "t", "_", "m", "a", "x">>) @@
    ("7i" :> <<"7", "i">>) @@
    ("PW" :> <<"P", "W">>) @@
    ("carry_distance" :> <<"c", "a", "r", "r", "y", "_", "d", "i", "s", "t", "a", "n", "c", "e">>) @@
    ("best_metric" :> <<"b", "e", "s", "t", "_", "m", "e", "t", "r", "i", "c">>) @@
    ("sideways" :> <<"s", "i", "d", "e", "w", "a", "y", "s">>)

\* A Python value is a record of its kind and its content: "none", "bool"
\* (a BOOLEAN), "int" (an integer), "float" and "decimal" (as above), "str"
\* (its characters), "list" (its items), "dict" (its items in insertion
\* order, each a pair of a str key and a value, the keys distinct), and the
\* canonicalizer's NumericToken "token" (the characters of its value).
Value(kind, val) == [kind |-> kind, val |-> val]

\* sorted(...) of the items of a dict (by key, the keys being distinct) or
\* of its keys.
RECURSIVE InsertItem(_, _)
InsertItem(sorted, item) ==
    IF sorted = <<>> THEN <<item>>
    ELSE IF StrLess(item[1], sorted[Len(sorted)][1])
         THEN Append(InsertItem(SubSeq(sorted, 1, Len(sorted) - 1), item),
                     sorted[Len(sorted)])
         ELSE Append(sorted, item)

\* A plausible slip: the items are taken in insertion order.
SortedItems_unsorted(items) == items

RECURSIVE SortedItems(_)
SortedItems(items) ==
    IF items = <<>> THEN <<>>
    ELSE InsertItem(SortedItems(SubSeq(items, 1, Len(items) - 1)), items[Len(items)])

\* NumericToken(formatted), or the exception of _format_decimal.
NumericToken(formatted) ==
    IF formatted.status = "ok" THEN Returned(Value("token", formatted.value)) ELSE formatted

\* _normalize_numeric, called for every instance of int, float or Decimal:
\* an int or float goes through Decimal(str(value)), a Decimal as it is.
\* bool is a subclass of int, and Decimal('True') raises InvalidOperation.
normalize_numeric(value) ==
    IF value.kind = "bool" THEN Raised("InvalidOperation")
    ELSE NumericToken(format_decimal(
             IF value.kind = "int" THEN DecimalOfInt(value.val)
             ELSE IF value.kind = "float" THEN DecimalOfFloat(value.val)
             ELSE value.val))

\* The outcome of converting the items of a container one after the other:
\* the first exception, or the container of the converted items.
FirstRaised(results) ==
    results[CHOOSE i \in 1..Len(results) :
               /\ results[i].status # "ok"
               /\ \A j \in 1..(i - 1) : results[j].status = "ok"]

Converted(results, container) ==
    IF \E i \in 1..Len(results) : results[i].status # "ok"
    THEN FirstRaised(results) ELSE Returned(container)

canonicalized_dict(items, results) ==
    Converted(results,
              Value("dict", [i \in 1..Len(items) |-> <<items[i][1], results[i].value>>]))

canonicalized_list(results) ==
    Converted(results, Value("list", [i \in 1..Len(results) |-> results[i].value]))

\* _canonicalize_value: a dict is rebuilt from its sorted items, a list item
\* by item, a number becomes a NumericToken, anything else passes through.
RECURSIVE canonicalize_value(_)
canonicalize_value(value) ==
    IF value.kind = "dict"
    THEN canonicalized_dict(SortedItems(value.val),
                            [i \in 1..Len(value.val) |->
                                canonicalize_value(SortedItems(value.val)[i][2])])
    ELSE IF value.kind = "list"
    THEN canonicalized_list([i \in 1..Len(value.val) |-> canonicalize_value(value.val[i])])
    ELSE IF value.kind \in {"int", "float", "decimal", "bool"}
    THEN normalize_numeric(value)
    ELSE Returned(value)

\* ','.join(items).
RECURSIVE Join(_)
Join(items) ==
    IF items = <<>> THEN <<>>
    ELSE IF Len(items) = 1 THEN items[1]
    ELSE items[1] \o <<",">> \o Join(Tail(items))

\* json.dumps(s, ensure_ascii=False) for a str: quoted, with the quote and
\* the backslash escaped.
\* The text is escaped by halves, so that the evaluation of a long text stays
\* shallow; the result is the concatenation of the escaped characters.
RECURSIVE Escaped(_)
Escaped(s) ==
    IF s = <<>> THEN <<>>
    ELSE IF Len(s) = 1
    THEN (IF s[1] = "\"" \/ s[1] = "\\" THEN <<"\\", s[1]>> ELSE <<s[1]>>)
    ELSE Escaped(SubSeq(s, 1, Len(s) \div 2))
             \o Escaped(SubSeq(s, Len(s) \div 2 + 1, Len(s)))

json_dumps_str(s) == <<"\"">> \o Escaped(s) \o <<"\"">>

\* _build_json: null, true, false, the token's characters unquoted, a quoted
\* str, and the members of a dict (by sorted key) or list joined by commas.
RECURSIVE build_json(_)
build_json(obj) ==
    IF obj.kind = "none" THEN <<"n", "u", "l", "l">>
    ELSE IF obj.kind = "bool"
    THEN (IF obj.val THEN <<"t", "r", "u", "e">> ELSE <<"f", "a", "l", "s", "e">>)
    ELSE IF obj.kind = "token" THEN obj.val
    ELSE IF obj.kind = "str" THEN json_dumps_str(obj.val)
    ELSE IF obj.kind = "dict"
    THEN <<"{">> \o
         Join([i \in 1..Len(obj.val) |->
                 json_dumps_str(SortedItems(obj.val)[i][1]) \o <<":">> \o
                 build_json(SortedItems(obj.val)[i][2])])
         \o <<"}">>
    ELSE <<"[">> \o Join([i \in 1..Len(obj.val) |-> build_json(obj.val[i])]) \o <<"]">>

\* canonical_json = _build_json(canonical_dict), when _canonicalize_value
\* returned canonical_dict.
built(canonical_dict) ==
    IF canonical_dict.status = "ok"
    THEN Returned(build_json(canonical_dict.value))
    ELSE canonical_dict

\* canonicalize: _build_json of _canonicalize_value.
canonicalize(template_dict) == built(canonicalize_value(template_dict))

\* s.encode('utf-8'): every character of the model is one byte.
encode_utf8(s) == [i \in 1..Len(s) |-> Ord(s[i])]

\* hashlib.sha256(json_bytes).hexdigest().lower(): the digest is a function
\* of the bytes, and different inputs of the model have different digests.
sha256_hexdigest(json_bytes) == [sha256 |-> json_bytes]

\* The digest of the bytes of canonical_json, when canonicalize returned it.
hashed(canonical_json) ==
    IF canonical_json.status = "ok"
    THEN Returned(sha256_hexdigest(encode_utf8(canonical_json.value)))
    ELSE canonical_json

\* compute_template_hash: the digest of the UTF-8 bytes of canonicalize of
\* the argument.
compute_template_hash(template_dict) == hashed(canonicalize(template_dict))

\* ------------------------------------------------------------------ json.loads

\* A str of the canonicalizer's output between '"' at s[i - 1] and the
\* closing quote: the characters, each escaped one taken as it is.
RECURSIVE scan_string(_, _, _)
scan_string(s, i, acc) ==
    IF s[i] = "\"" THEN [val |-> acc, next |-> i + 1]
    ELSE IF s[i] = "\\" THEN scan_string(s, i + 2, Append(acc, s[i + 1]))
    ELSE scan_string(s, i + 1, Append(acc, s[i]))

\* The end of the number that starts at s[i].
RECURSIVE number_end(_, _)
number_end(s, i) ==
    IF i <= Len(s) /\ s[i] \in Range(DigitChars) \cup {"-", ".", "E", "e", "+"}
    THEN number_end(s, i + 1) ELSE i

\* int(digits).
RECURSIVE int_of(_)
int_of(digits) ==
    IF digits = <<>> THEN 0
    ELSE 10 * int_of(SubSeq(digits, 1, Len(digits) - 1)) +
         (CHOOSE d \in 0..9 : DigitChars[d + 1] = digits[Len(digits)])

\* A float by the digits of its repr: no leading and no trailing zeros in
\* the digits, and 0 is 0 * 10^0.  Float(sign, coef, exp) has the digits of
\* the int coef.
RECURSIVE FloatOfDigits(_, _, _)
FloatOfDigits(sign, digits, exp) ==
    IF \A i \in 1..Len(digits) : digits[i] = "0"
    THEN [special |-> "", sign |-> sign, digits |-> <<"0">>, exp |-> 0]
    ELSE IF digits[Len(digits)] = "0"
    THEN FloatOfDigits(sign, SubSeq(digits, 1, Len(digits) - 1), exp + 1)
    ELSE [special |-> "", sign |-> sign, digits |-> LStrip(digits, "0"), exp |-> exp]

Float(sign, coef, exp) == FloatOfDigits(sign, Digits(coef), exp)

SpecialFloat(special, sign) == [special |-> special, sign |-> sign, digits |-> <<"0">>, exp |-> 0]

\* Decimal(token) for a token in fixed-point notation.
DecimalOfToken(token) ==
    LET sign == IF token[1] = "-" THEN 1 ELSE 0
        unsigned == IF sign = 1 THEN Tail(token) ELSE token
        dot == IF "." \in Range(unsigned)
               THEN CHOOSE i \in 1..Len(unsigned) : unsigned[i] = "." ELSE 0
        integer == IF dot = 0 THEN unsigned ELSE SubSeq(unsigned, 1, dot - 1)
        frac == IF dot = 0 THEN <<>> ELSE SubSeq(unsigned, dot + 1, Len(unsigned))
    IN DecimalOfDigits(sign, integer \o frac, -Len(frac))

\* The doubles nearest to the decimals of the model that have more than 15
\* significant digits, by the digits and exponent of their repr:
\* float('123456789.123456789') is 123456789.12345679.
NearestDoubles ==
    {<< <<(<<"1", "2", "3", "4", "5", "6", "7", "8", "9",
              "1", "2", "3", "4", "5", "6", "7", "8", "9">>), -9>>,
        <<(<<"1", "2", "3", "4", "5", "6", "7", "8", "9",
              "1", "2", "3", "4", "5", "6", "7", "9">>), -8>> >>}

\* float(s) for a decimal numeral: the double nearest to it.  A numeral of
\* at most 15 significant digits is the repr of its double; a double's repr
\* never has more than 17.
float_of(dec) ==
    LET exact == FloatOfDigits(dec.sign, dec.digits, dec.exp)
        nearest == (CHOOSE p \in NearestDoubles : p[1] = <<exact.digits, exact.exp>>)[2]
    IN IF Len(exact.digits) <= 15 THEN exact
       ELSE FloatOfDigits(dec.sign, nearest[1], nearest[2])

\* The number json.loads makes of a token without exponent: an int when it
\* has no fraction, otherwise float(token).
number_of(token) ==
    IF "." \in Range(token)
    THEN Value("float", float_of(DecimalOfToken(token)))
    ELSE Value("int", IF token[1] = "-" THEN -int_of(Tail(token)) ELSE int_of(token))

\* json.loads of a text the canonicalizer wrote: the decoder's scan from
\* s[i], of one value, of the rest of an array (after the items acc) or of
\* the rest of an object; it gives the value and the index after it.  The
\* decoder reads NaN as float('nan').
RECURSIVE scan(_, _, _, _)
scan(s, i, what, acc) ==
    IF what = "array"
    THEN LET item == scan(s, i, "value", <<>>)
         IN IF s[item.next] = ","
            THEN scan(s, item.next + 1, "array", Append(acc, item.val))
            ELSE [val |-> Value("list", Append(acc, item.val)), next |-> item.next + 1]
    ELSE IF what = "object"
    THEN LET key == scan_string(s, i + 1, <<>>)
             item == scan(s, key.next + 1, "value", <<>>)
             members == Append(acc, <<key.val, item.val>>)
         IN IF s[item.next] = ","
            THEN scan(s, item.next + 1, "object", members)
            ELSE [val |-> Value("dict", members), next |-> item.next + 1]
    ELSE IF s[i] = "n" THEN [val |-> Value("none", NULL), next |-> i + 4]
    ELSE IF s[i] = "t" THEN [val |-> Value("bool", TRUE), next |-> i + 4]
    ELSE IF s[i] = "f" THEN [val |-> Value("bool", FALSE), next |-> i + 5]
    ELSE IF s[i] = "N" THEN [val |-> Value("float", SpecialFloat("nan", 0)), next |-> i + 3]
    ELSE IF s[i] = "\""
    THEN LET str == scan_string(s, i + 1, <<>>)
         IN [val |-> Value("str", str.val), next |-> str.next]
    ELSE IF s[i] = "["
    THEN (IF s[i + 1] = "]" THEN [val |-> Value("list", <<>>), next |-> i + 2]
          ELSE scan(s, i + 1, "array", <<>>))
    ELSE IF s[i] = "{"
    THEN (IF s[i + 1] = "}" THEN [val |-> Value("dict", <<>>), next |-> i + 2]
          ELSE scan(s, i + 1, "object", <<>>))
    ELSE [val |-> number_of(SubSeq(s, i, number_end(s, i) - 1)), next |-> number_end(s, i)]

json_loads(s) == scan(s, 1, "value", <<>>).val

\* ------------------------------------------------------------------ canonicalizer calls

\* The values the canonicalizer and the hasher are called with.
MaxDepth == 2
MaxWidth == 2

NoneValue == Value("none", NULL)
Bools == {Value("bool", b) : b \in BOOLEAN}
Ints == {Value("int", n) : n \in {0, 1, -15, 100}}
Floats ==
    {Value("float", f) : f \in
        {Float(0, 1, 0), Float(1, 0, 0), Float(0, 15, -1), Float(0, 1, -7),
         Float(0, 1, 2), Float(1, 15, -8),
         SpecialFloat("nan", 0), SpecialFloat("inf", 0), SpecialFloat("inf", 1)}}
Decimals ==
    {Value("decimal", d) : d \in
        {Decimal(0, 100, -2), Decimal(0, 1, 2), Decimal(0, 10, -2), Decimal(1, 0, 0),
         Decimal(0, 0, -2), Decimal(0, 15, -1), Decimal(0, 150, -2), Decimal(1, 15, -8),
         Decimal(0, 1, -7), Decimal(1, 150, -1),
         DecimalOfDigits(0, <<"1", "2", "3", "4", "5", "6", "7", "8", "9",
                              "1", "2", "3", "4", "5", "6", "7", "8", "9">>, -9),
         SpecialDecimal("NaN", 0), SpecialDecimal("sNaN", 0),
         SpecialDecimal("Infinity", 0), SpecialDecimal("Infinity", 1)}}
Numbers == Ints \cup Floats \cup Decimals
Strs == {Value("str", s) : s \in {<<>>, <<"a">>, <<"1">>, <<"a", "\"">>, <<"\\">>}}
Leaves == {NoneValue} \cup Bools \cup Numbers \cup Strs

\* The keys of the dicts, one a prefix of another, and the values that sit
\* next to a nested value.
Keys == {<<"b">>, <<"a">>, <<"a", "b">>}
Siblings == {Value("int", 1), Value("str", <<"a">>)}

\* The containers of at most MaxWidth items around a value t: lists and
\* dicts, with t in every position and under every key, in every insertion
\* order.
Wrap(t) ==
    LET others == {sibs \in UNION {[1..n -> Siblings] : n \in 0..(MaxWidth - 1)} : TRUE}
        lists == {SubSeq(sibs, 1, k) \o <<t>> \o SubSeq(sibs, k + 1, Len(sibs)) :
                     <<sibs, k>> \in {<<x, j>> \in others \X (0..MaxWidth) : j <= Len(x)}}
        keyed == {items \in UNION {[1..n -> Keys \X (Siblings \cup {t})] : n \in 1..MaxWidth} :
                     /\ \A i, j \in 1..Len(items) : items[i][1] = items[j][1] => i = j
                     /\ Cardinality({i \in 1..Len(items) : items[i][2] = t}) = 1}
    IN {Value("list", l) : l \in lists} \cup {Value("dict", d) : d \in keyed}

\* The values nested to depth d around the leaves that matter inside a
\* container.
CoreLeaves ==
    {Value("int", 1), Value("float", Float(0, 15, -1)), Value("decimal", Decimal(0, 150, -2)),
     Value("float", SpecialFloat("nan", 0)), Value("float", SpecialFloat("inf", 1)),
     Value("bool", TRUE), NoneValue, Value("str", <<"a", "\"">>)}

RECURSIVE Nested(_)
Nested(d) == IF d = 0 THEN CoreLeaves ELSE UNION {Wrap(t) : t \in Nested(d - 1)}

Trees ==
    Leaves \cup {Value("list", <<>>), Value("dict", <<>>)}
           \cup UNION {Nested(d) : d \in 1..MaxDepth}

\* No call was made yet: the value is at hand.
InitCanonical ==
    /\ sessions = <<>>
    /\ kpi_templates = <<>>
    /\ club_subsessions = <<>>
    /\ projections = <<>>
    /\ last = [op |-> "init", status |-> "ok", violations |-> {}, ret |-> NULL]
    /\ writers = [w \in Writers |-> IdleWriter]
    /\ call \in {[fn |-> "none", arg |-> t, out |-> NULL] : t \in Trees}

\* canonicalize(value).
Canonicalize ==
    /\ call.fn = "none"
    /\ call' = [fn |-> "canonicalize", arg |-> call.arg, out |-> canonicalize(call.arg)]
    /\ UNCHANGED <<sessions, kpi_templates, club_subsessions, projections, last, writers>>

\* compute_template_hash(value).
ComputeTemplateHash ==
    /\ call.fn = "none"
    /\ call' = [fn |-> "compute_template_hash", arg |-> call.arg,
                out |-> compute_template_hash(call.arg)]
    /\ UNCHANGED <<sessions, kpi_templates, club_subsessions, projections, last, writers>>

\* The round trip of the idempotence test, after canonical1 =
\* canonicalize(value) returned: parsed = json.loads(canonical1), and then
\* canonical2 = canonicalize(parsed).
JsonLoads ==
    /\ call.fn = "canonicalize"
    /\ call.out.status = "ok"
    /\ call' = [fn |-> "json_loads", arg |-> call.out.value, out |-> json_loads(call.out.value)]
    /\ UNCHANGED <<sessions, kpi_templates, club_subsessions, projections, last, writers>>

CanonicalizeParsed ==
    /\ call.fn = "json_loads"
    /\ call' = [fn |-> "canonicalize_parsed", arg |-> call.arg, out |-> canonicalize(call.out)]
    /\ UNCHANGED <<sessions, kpi_templates, club_subsessions, projections, last, writers>>

NextCanonical == Canonicalize \/ ComputeTemplateHash \/ JsonLoads \/ CanonicalizeParsed

SpecCanonical == InitCanonical /\ [][NextCanonical]_vars

\* ------------------------------------------------------------------ template loader

\* dict operations on a dict value: key in d, d.get(key, default), and
\* d[key] = value (a new key goes last).
DictHas(d, key) == \E i \in 1..Len(d.val) : d.val[i][1] = key

DictGet(d, key, default) ==
    IF DictHas(d, key)
    THEN d.val[CHOOSE i \in 1..Len(d.val) : d.val[i][1] = key][2]
    ELSE default

DictSet(d, key, value) ==
    IF DictHas(d, key)
    THEN Value("dict", [i \in 1..Len(d.val) |->
                           IF d.val[i][1] = key THEN <<key, value>> ELSE d.val[i]])
    ELSE Value("dict", Append(d.val, <<key, value>>))

EmptyDict == Value("dict", <<>>)
Str(s) == Value("str", Chars[s])

METRIC_DIRECTIONS ==
    Value("dict", << <<Chars["ball_speed"], Str("higher_is_better")>>,
                     <<Chars["smash_factor"], Str("higher_is_better")>>,
                     <<Chars["spin_rate"], Str("higher_is_better")>>,
                     <<Chars["descent_angle"], Str("higher_is_better")>> >>)

SUPPORTED_METRICS == {METRIC_DIRECTIONS.val[i][1] : i \in 1..Len(METRIC_DIRECTIONS.val)}

\* a_metric_mappings and b_metric_mappings: kpi_key, metric_name,
\* threshold_key, in the order of the dict literals.
a_metric_mappings ==
    << <<Chars["ball_speed_min"], Chars["ball_speed"], Chars["a_min"]>>,
       <<Chars["smash_min"], Chars["smash_factor"], Chars["a_min"]>>,
       <<Chars["spin_min"], Chars["spin_rate"], Chars["a_min"]>>,
       <<Chars["descent_min"], Chars["descent_angle"], Chars["a_min"]>> >>

b_metric_mappings ==
    << <<Chars["ball_speed_min"], Chars["ball_speed"], Chars["b_min"]>>,
       <<Chars["ball_speed_max"], Chars["ball_speed"], Chars["b_max"]>>,
       <<Chars["smash_min"], Chars["smash_factor"], Chars["b_min"]>>,
       <<Chars["smash_max"], Chars["smash_factor"], Chars["b_max"]>>,
       <<Chars["spin_min"], Chars["spin_rate"], Chars["b_min"]>>,
       <<Chars["spin_max"], Chars["spin_rate"], Chars["b_max"]>>,
       <<Chars["descent_min"], Chars["descent_angle"], Chars["b_min"]>>,
       <<Chars["descent_max"], Chars["descent_angle"], Chars["b_max"]>> >>

\* if metric_name not in metrics: metrics[metric_name] = {"direction": direction}.
with_metric(metrics, metric_name) ==
    IF DictHas(metrics, metric_name) THEN metrics
    ELSE DictSet(metrics, metric_name,
                 Value("dict", << <<Chars["direction"],
                                    DictGet(METRIC_DIRECTIONS, metric_name, NULL)>> >>))

\* metrics[metric_name][threshold_key] = value.
set_threshold(metrics, metric_name, threshold_key, value) ==
    DictSet(metrics, metric_name,
            DictSet(DictGet(metrics, metric_name, NULL), threshold_key, value))

\* One of the two loops of _convert_to_canonical_template over a mapping:
\* every kpi_key the thresholds have sets its threshold_key in its metric,
\* which is first created with its direction.
RECURSIVE process_thresholds(_, _, _)
process_thresholds(metrics, mappings, thresholds) ==
    IF mappings = <<>> THEN metrics
    ELSE process_thresholds(
             IF DictHas(thresholds, mappings[1][1])
             THEN set_threshold(with_metric(metrics, mappings[1][2]), mappings[1][2],
                                mappings[1][3], DictGet(thresholds, mappings[1][1], NULL))
             ELSE metrics,
             Tail(mappings), thresholds)

\* The validation of the metrics and the template dict built from them.
template_of(club, schema_version, kpi_version, metrics) ==
    IF \E i \in 1..Len(metrics.val) : metrics.val[i][1] \notin SUPPORTED_METRICS
    THEN Raised("ValueError")
    ELSE Returned(Value("dict",
             << <<Chars["schema_version"], Value("str", schema_version)>>,
                <<Chars["club"], Value("str", club)>>,
                <<Chars["metrics"], metrics>>,
                <<Chars["aggregation_method"], Str("worst_metric")>>,
                <<Chars["source"], Str("tools/kpis.json")>>,
                <<Chars["kpi_version"], kpi_version>> >>))

\* _convert_to_canonical_template: the template dict, or ValueError for a
\* metric that is not supported.
convert_to_canonical_template(club, thresholds, schema_version, kpi_version) ==
    template_of(club, schema_version, kpi_version,
                process_thresholds(
                    process_thresholds(EmptyDict, a_metric_mappings,
                                       DictGet(thresholds, Chars["a"], EmptyDict)),
                    b_metric_mappings, DictGet(thresholds, Chars["b"], EmptyDict)))

\* load_templates_from_kpis_json, lines 72-90: the thresholds and the
\* kpi_version of a club, of the version asked for or of the active one.
thresholds_of(club_data, version) ==
    IF version # NULL
    THEN DictGet(DictGet(DictGet(club_data, Chars["versions"], EmptyDict),
                         version[1], EmptyDict),
                 Chars["thresholds"], EmptyDict)
    ELSE Value("dict",
             << <<Chars["a"], DictGet(club_data, Chars["a"], EmptyDict)>>,
                <<Chars["b"], DictGet(club_data, Chars["b"], EmptyDict)>>,
                <<Chars["c"], DictGet(club_data, Chars["c"], EmptyDict)>> >>)

kpi_version_of(kpis_data, club_data, version) ==
    IF version # NULL
    THEN DictGet(DictGet(DictGet(club_data, Chars["versions"], EmptyDict),
                         version[1], EmptyDict),
                 Chars["kpi_version"], Value("str", version[1]))
    ELSE DictGet(club_data, Chars["kpi_version"],
                 DictGet(kpis_data, Chars["default_kpi_version"], Str("v1.0")))

\* The loop of load_templates_from_kpis_json over clubs.items(), from the
\* i-th club on: db is the database and acc the three lists so far.
RECURSIVE load_clubs(_, _, _, _, _)

\* Lines 116-123: after repo.insert_template.
after_insert(inserted, kpis_data, version, i, acc, template_hash) ==
    IF inserted.outcome.status # "ok" THEN inserted
    ELSE load_clubs(inserted.db, kpis_data, version, i + 1,
                    [acc EXCEPT !.inserted = Append(@, template_hash)])

\* A plausible slip: the template is inserted without the look-up.
insert_if_new_unchecked(db, kpis_data, version, i, acc, club_name, canonical_json, template_hash) ==
    after_insert(insert_template(db, template_hash, Chars["1.0"], club_name,
                                 canonical_json),
                 kpis_data, version, i, acc, template_hash)

\* Lines 109-123: the template is inserted unless get_template finds its
\* hash.
insert_if_new(db, kpis_data, version, i, acc, club_name, canonical_json, template_hash) ==
    IF get_template(db, template_hash).outcome.ret[1] # NULL
    THEN load_clubs(db, kpis_data, version, i + 1,
                    [acc EXCEPT !.existing = Append(@, template_hash)])
    ELSE after_insert(insert_template(db, template_hash, Chars["1.0"], club_name,
                                      canonical_json),
                      kpis_data, version, i, acc, template_hash)

\* Line 107: template_hash = compute_template_hash(canonical_json).  The
\* argument is the canonical text (a str), not the template.  An exception
\* of canonicalize ends the call with what was committed before.
hash_and_insert(db, kpis_data, version, i, acc, club_name, canonical_json) ==
    IF canonical_json.status # "ok" THEN Result(db, Raise(canonical_json.status, {}))
    ELSE insert_if_new(db, kpis_data, version, i, acc, club_name, canonical_json.value,
                       compute_template_hash(Value("str", canonical_json.value)).value)

\* Lines 94-106: a club whose conversion raised ValueError is skipped;
\* otherwise canonical_json = canonicalize(template).
canonicalize_and_insert(db, kpis_data, version, i, acc, club_name, template) ==
    IF template.status # "ok"
    THEN load_clubs(db, kpis_data, version, i + 1,
                    [acc EXCEPT !.skipped = Append(@, <<club_name, template.status>>)])
    ELSE hash_and_insert(db, kpis_data, version, i, acc, club_name,
                         canonicalize(template.value))

\* Lines 71-100: one club.
load_club(db, kpis_data, version, i, acc, club_name, club_data) ==
    IF version # NULL
       /\ ~DictHas(DictGet(club_data, Chars["versions"], EmptyDict), version[1])
    THEN load_clubs(db, kpis_data, version, i + 1,
                    [acc EXCEPT !.skipped = Append(@, <<club_name, "version not found">>)])
    ELSE canonicalize_and_insert(db, kpis_data, version, i, acc, club_name,
             convert_to_canonical_template(club_name, thresholds_of(club_data, version),
                 Chars["1.0"], kpi_version_of(kpis_data, club_data, version)))

load_clubs(db, kpis_data, version, i, acc) ==
    IF i > Len(DictGet(kpis_data, Chars["clubs"], EmptyDict).val) THEN Result(db, Ok(acc))
    ELSE load_club(db, kpis_data, version, i, acc,
                   DictGet(kpis_data, Chars["clubs"], EmptyDict).val[i][1],
                   DictGet(kpis_data, Chars["clubs"], EmptyDict).val[i][2])

\* load_templates_from_kpis_json(repo, kpis_path, version): kpis_file is
\* Some(json.load of the file), or NULL when the file does not exist.
load_templates_from_kpis_json(db, kpis_file, version) ==
    IF kpis_file = NULL THEN Result(db, Raise("FileNotFoundError", {}))
    ELSE load_clubs(db, kpis_file[1], version, 1,
                    [inserted |-> <<>>, existing |-> <<>>, skipped |-> <<>>])

\* The files the loader is called with: one or two clubs, each with
\* thresholds at the top level and possibly under a version.
ClubNames == {Chars["7i"], Chars["PW"]}

ClubDatas ==
    {Value("dict",
        << <<Chars["a"], Value("dict",
                << <<Chars["ball_speed_min"], Value("float", Float(0, 1055, -1))>> >>)>>,
           <<Chars["b"], Value("dict",
                << <<Chars["ball_speed_min"], Value("int", 100)>>,
                   <<Chars["ball_speed_max"], Value("float", Float(0, 1055, -1))>> >>)>>,
           <<Chars["c"], Value("dict",
                << <<Chars["ball_speed_max"], Value("int", 100)>> >>)>> >>),
     Value("dict",
        << <<Chars["kpi_version"], Str("v2.0")>>,
           <<Chars["b"], Value("dict",
                << <<Chars["smash_min"], Value("float", Float(0, 12, -1))>> >>)>>,
           <<Chars["a"], Value("dict",
                << <<Chars["smash_min"], Value("float", Float(0, 13, -1))>> >>)>> >>),
     Value("dict",
        << <<Chars["a"], Value("dict",
                << <<Chars["descent_min"], Value("float", Float(0, 42, 0))>> >>)>>,
           <<Chars["versions"], Value("dict",
                << <<Chars["v2.0"], Value("dict",
                      << <<Chars["thresholds"], Value("dict",
                            << <<Chars["a"], Value("dict",
                                  << <<Chars["descent_min"], Value("float", Float(0, 42, 0))>>,
                                     <<Chars["spin_min"], Value("int", 100)>> >>)>> >>)>> >>)>> >>)>> >>)}

KpisFiles ==
    {NULL} \cup
    {Some(Value("dict", << <<Chars["clubs"], Value("dict", clubs)>> >>)) :
        clubs \in {c \in UNION {[1..n -> ClubNames \X ClubDatas] : n \in 1..MaxTemplates} :
                      \A i, j \in 1..Len(c) : c[i][1] = c[j][1] => i = j}}

Versions == {NULL, Some(Chars["v2.0"])}

LoadTemplates(kpis_file, version) ==
    Apply("load_templates_from_kpis_json",
          load_templates_from_kpis_json(Db, kpis_file, version), TRUE)

NextLoader == \E kpis_file \in KpisFiles, version \in Versions : LoadTemplates(kpis_file, version)

SpecLoader == Init /\ [][NextLoader]_vars

\* The same file is loaded again and again: the call under study is the load
\* of one file and version, and out lists, for each time it ran, the template
\* table it found and what it returned or raised.
MaxLoads == 2

InitReload ==
    /\ sessions = <<>>
    /\ kpi_templates = <<>>
    /\ club_subsessions = <<>>
    /\ projections = <<>>
    /\ last = [op |-> "init", status |-> "ok", violations |-> {}, ret |-> NULL]
    /\ writers = [w \in Writers |-> IdleWriter]
    /\ \E kpis_file \in KpisFiles, version \in Versions :
          call = [fn |-> "load_templates_from_kpis_json",
                  arg |-> [kpis_file |-> kpis_file, version |-> version],
                  out |-> <<>>]

Reloaded(r) ==
    /\ sessions' = r.db.sessions
    /\ kpi_templates' = r.db.kpi_templates
    /\ club_subsessions' = r.db.club_subsessions
    /\ projections' = r.db.projections
    /\ last' = [op |-> "load_templates_from_kpis_json", status |-> r.outcome.status,
                violations |-> r.outcome.violations, ret |-> r.outcome.ret]
    /\ call' = [call EXCEPT !.out = Append(@, [before |-> kpi_templates,
                                                status |-> r.outcome.status,
                                                ret |-> r.outcome.ret])]
    /\ UNCHANGED writers

\* load_templates_from_kpis_json runs on the file under study.
LoadAgain ==
    /\ Len(call.out) < MaxLoads
    /\ Reloaded(load_templates_from_kpis_json(Db, call.arg.kpis_file, call.arg.version))

\* Before the first of these loads, the active templates of another file with
\* one club may have been loaded.
LoadBefore(kpis_file) ==
    /\ kpi_templates = <<>>
    /\ call.out = <<>>
    /\ kpis_file # NULL
    /\ Len(DictGet(kpis_file[1], Chars["clubs"], EmptyDict).val) = 1
    /\ LET r == load_templates_from_kpis_json(Db, kpis_file, NULL)
       IN /\ sessions' = r.db.sessions
          /\ kpi_templates' = r.db.kpi_templates
          /\ club_subsessions' = r.db.club_subsessions
          /\ projections' = r.db.projections
          /\ last' = [op |-> "load_templates_from_kpis_json", status |-> r.outcome.status,
                      violations |-> r.outcome.violations, ret |-> r.outcome.ret]
          /\ UNCHANGED <<writers, call>>

NextReload ==
    \/ LoadAgain
    \/ \E kpis_file \in KpisFiles : LoadBefore(kpis_file)

SpecReload == InitReload /\ [][NextReload]_vars

\* ------------------------------------------------------------------ concurrent loads

\* Loads of one file that run at the same time, each with the Repository
\* connections of its own calls.  The file's templates are canonicalized and
\* hashed by each load to the same texts and hashes: a load is the list of
\* these templates, the position i of the loop, and the lists it reports.
LoadedTemplates ==
    {<<[template_hash |-> HashPool[1], club |-> "7i", canonical_json |-> "json_1"]>>,
     <<[template_hash |-> HashPool[1], club |-> "7i", canonical_json |-> "json_1"],
       [template_hash |-> HashPool[2], club |-> "PW", canonical_json |-> "json_1"]>>,
     <<[template_hash |-> HashPool[2], club |-> "PW", canonical_json |-> "json_1"],
       [template_hash |-> HashPool[1], club |-> "7i", canonical_json |-> "json_1"]>>}

\* load_templates_from_kpis_json is entered; the loads that run are loads of
\* the same content.
CallLoad(w, templates) ==
    /\ writers[w].pc = "idle"
    /\ \A v \in Writers : writers[v].args # NULL => writers[v].args[1].templates = templates
    /\ writers' = [writers EXCEPT ![w] =
                      [pc |-> "hashed",
                       args |-> Some([templates |-> templates, i |-> 1,
                                      inserted |-> <<>>, existing |-> <<>>]),
                       analyzed_at |-> NULL, row |-> NULL, outcome |-> NULL]]
    /\ UNCHANGED <<sessions, kpi_templates, club_subsessions, projections, last, call>>

\* The loop goes on to the next club, or the load returns its lists.
next_club(load) ==
    IF load.i = Len(load.templates)
    THEN [pc |-> "done", args |-> Some([load EXCEPT !.i = @ + 1]),
          analyzed_at |-> NULL, row |-> NULL,
          outcome |-> Some(Ok([inserted |-> load.inserted, existing |-> load.existing]))]
    ELSE [pc |-> "hashed", args |-> Some([load EXCEPT !.i = @ + 1]),
          analyzed_at |-> NULL, row |-> NULL, outcome |-> NULL]

\* Lines 110-114: existing_template = repo.get_template(template_hash), a
\* read of the committed table; a hash that is found is reported as existing.
CheckTemplate(w) ==
    /\ writers[w].pc = "hashed"
    /\ LET load == writers[w].args[1]
           found == get_template(Db, load.templates[load.i].template_hash).outcome.ret[1]
       IN writers' = [writers EXCEPT ![w] =
                         IF found # NULL
                         THEN next_club([load EXCEPT !.existing =
                                            Append(@, load.templates[load.i].template_hash)])
                         ELSE [@ EXCEPT !.pc = "checked"]]
    /\ UNCHANGED <<sessions, kpi_templates, club_subsessions, projections, last, call>>

\* Lines 117-122, repo.insert_template up to conn.execute(INSERT ...): the
\* statement takes the write lock and checks the primary key against the
\* committed table; IntegrityError leaves insert_template and the load.
ExecuteTemplateInsert(w) ==
    /\ writers[w].pc = "checked"
    /\ write_lock_free(writers, w)
    /\ LET load == writers[w].args[1]
           t == load.templates[load.i]
           r == insert_template(Db, t.template_hash, "1.0", t.club, t.canonical_json)
       IN writers' = [writers EXCEPT ![w] =
                         IF r.outcome.status # "ok"
                         THEN [@ EXCEPT !.pc = "done", !.outcome = Some(r.outcome)]
                         ELSE [@ EXCEPT !.pc = "inserted",
                                        !.row = Some(r.db.kpi_templates[Len(r.db.kpi_templates)])]]
    /\ UNCHANGED <<sessions, kpi_templates, club_subsessions, projections, last, call>>

\* conn.commit() of insert_template and line 123: the row is in the table,
\* the lock is released and the hash is reported as inserted.
CommitTemplateInsert(w) ==
    /\ writers[w].pc = "inserted"
    /\ kpi_templates' = Append(kpi_templates, writers[w].row[1])
    /\ writers' = [writers EXCEPT ![w] =
                      next_club([writers[w].args[1] EXCEPT !.inserted =
                                    Append(@, writers[w].row[1].template_hash)])]
    /\ UNCHANGED <<sessions, club_subsessions, projections, last, call>>

NextConcurrentLoads ==
    \/ \E w \in Writers, templates \in LoadedTemplates : CallLoad(w, templates)
    \/ \E w \in Writers : CheckTemplate(w)
    \/ \E w \in Writers : ExecuteTemplateInsert(w)
    \/ \E w \in Writers : CommitTemplateInsert(w)

SpecConcurrentLoads == Init /\ [][NextConcurrentLoads]_vars

\* ------------------------------------------------------------------ classification

\* _grade_metric, direction higher_is_better: A from a_min up, else B from
\* b_min up, else C; a cutoff that is None is never reached.
grade_higher_is_better(value, a_min, b_min) ==
    IF a_min.kind # "none" /\ value.val >= a_min.val THEN Returned("A")
    ELSE IF b_min.kind # "none" /\ value.val >= b_min.val THEN Returned("B")
    ELSE Returned("C")

\* _grade_metric, direction lower_is_better: A up to a_max, else B up to
\* b_max, else C.
grade_lower_is_better(value, a_max, b_max) ==
    IF a_max.kind # "none" /\ value.val <= a_max.val THEN Returned("A")
    ELSE IF b_max.kind # "none" /\ value.val <= b_max.val THEN Returned("B")
    ELSE Returned("C")

grade_in_direction(direction, value, thresholds) ==
    IF direction = Str("higher_is_better")
    THEN grade_higher_is_better(value, DictGet(thresholds, Chars["a_min"], NoneValue),
                                DictGet(thresholds, Chars["b_min"], NoneValue))
    ELSE IF direction = Str("lower_is_better")
    THEN grade_lower_is_better(value, DictGet(thresholds, Chars["a_max"], NoneValue),
                               DictGet(thresholds, Chars["b_max"], NoneValue))
    ELSE Raised("ValueError")

\* _grade_metric(value, thresholds): the direction defaults to
\* higher_is_better, and any other direction than the two raises ValueError.
grade_metric(value, thresholds) ==
    grade_in_direction(DictGet(thresholds, Chars["direction"], Str("higher_is_better")),
                       value, thresholds)

\* Template metric names to shot field names.
metric_field_map ==
    Value("dict", << <<Chars["ball_speed"], Str("ball_speed")>>,
                     <<Chars["smash_factor"], Str("smash_factor")>>,
                     <<Chars["spin_rate"], Str("spin_rate")>>,
                     <<Chars["descent_angle"], Str("descent_angle")>> >>)

\* Lines 283-286: the worst grade after a metric graded grade.
worse_grade(worst_grade, grade) ==
    IF grade = "C" THEN "C"
    ELSE IF grade = "B" /\ worst_grade # "C" THEN "B"
    ELSE worst_grade

\* The loop of _classify_shot over metrics.items(), from the i-th metric on.
RECURSIVE classify_metrics(_, _, _, _)

\* Lines 280-286: the metric is graded and the worst grade updated; an
\* exception of _grade_metric ends the call.
classify_graded(shot, metrics, i, worst_grade, grade) ==
    IF grade.status # "ok" THEN grade
    ELSE classify_metrics(shot, metrics, i + 1, worse_grade(worst_grade, grade.value))

\* Lines 273-280: a value that is None makes the worst grade C.
classify_value(shot, metrics, i, worst_grade, value) ==
    IF value.kind = "none" THEN classify_metrics(shot, metrics, i + 1, "C")
    ELSE classify_graded(shot, metrics, i, worst_grade,
                         grade_metric(value, metrics.val[i][2]))

\* Lines 268-273: a metric name that is not in metric_field_map is passed
\* over.
classify_metrics(shot, metrics, i, worst_grade) ==
    IF i > Len(metrics.val) THEN Returned(worst_grade)
    ELSE IF ~DictHas(metric_field_map, metrics.val[i][1])
    THEN classify_metrics(shot, metrics, i + 1, worst_grade)
    ELSE classify_value(shot, metrics, i, worst_grade,
                        DictGet(shot, DictGet(metric_field_map, metrics.val[i][1], NULL).val,
                                NoneValue))

\* _classify_shot(shot, template).
classify_shot(shot, template) ==
    IF DictGet(template, Chars["aggregation_method"], Str("worst_metric"))
           # Str("worst_metric")
    THEN Raised("ValueError")
    ELSE classify_metrics(shot, DictGet(template, Chars["metrics"], EmptyDict), 1, "A")

\* The shots and templates the classifier is called with.  A shot reports
\* some of its fields; a template has up to MaxMetrics metrics, each with a
\* threshold rule, and possibly an aggregation method.
MaxMetrics == 2

ShotFields == {Chars["ball_speed"], Chars["smash_factor"], Chars["carry_distance"]}
MetricNames == <<Chars["ball_speed"], Chars["smash_factor"], Chars["carry_distance"]>>
MetricValues == {Value("int", n) : n \in 0..2}

\* The dict with the keys of names that items gives a value, in the order
\* of names.
RECURSIVE DictOf(_, _)
DictOf(names, items) ==
    IF names = <<>> THEN <<>>
    ELSE IF items[names[1]] = NULL THEN DictOf(Tail(names), items)
    ELSE << <<names[1], items[names[1]][1]>> >> \o DictOf(Tail(names), items)

Shots ==
    {Value("dict", DictOf(MetricNames, items)) :
        items \in [ShotFields -> {NULL} \cup {Some(v) : v \in MetricValues}]}

ThresholdRules ==
    {Value("dict", << <<Chars["a_min"], Value("int", 2)>>,
                      <<Chars["b_min"], Value("int", 1)>>,
                      <<Chars["direction"], Str("higher_is_better")>> >>),
     Value("dict", << <<Chars["a_max"], Value("int", 0)>>,
                      <<Chars["b_max"], Value("int", 1)>>,
                      <<Chars["direction"], Str("lower_is_better")>> >>),
     Value("dict", << <<Chars["a_min"], Value("int", 1)>>,
                      <<Chars["b_min"], Value("int", 1)>> >>),
     Value("dict", << <<Chars["b_min"], Value("int", 1)>>,
                      <<Chars["direction"], Str("higher_is_better")>> >>),
     Value("dict", << <<Chars["a_min"], Value("int", 2)>>,
                      <<Chars["b_min"], Value("int", 1)>>,
                      <<Chars["direction"], Str("sideways")>> >>)}

MetricsDicts ==
    {Value("dict", m) :
        m \in {m \in UNION {[1..n -> ShotFields \X ThresholdRules] : n \in 0..MaxMetrics} :
                  \A i, j \in 1..Len(m) : m[i][1] = m[j][1] => i = j}}

ClassifyTemplates ==
    {Value("dict", << <<Chars["metrics"], metrics>> >> \o aggregation) :
        metrics \in MetricsDicts,
        aggregation \in {<<>>,
                         << <<Chars["aggregation_method"], Str("worst_metric")>> >>,
                         << <<Chars["aggregation_method"], Str("best_metric")>> >>}}

InitClassify ==
    /\ sessions = <<>>
    /\ kpi_templates = <<>>
    /\ club_subsessions = <<>>
    /\ projections = <<>>
    /\ last = [op |-> "init", status |-> "ok", violations |-> {}, ret |-> NULL]
    /\ writers = [w \in Writers |-> IdleWriter]
    /\ call \in {[fn |-> "none", arg |-> [shot |-> shot, template |-> template], out |-> NULL] :
                    shot \in Shots, template \in ClassifyTemplates}

\* _classify_shot(shot, template).
ClassifyShot ==
    /\ call.fn = "none"
    /\ call' = [fn |-> "classify_shot", arg |-> call.arg,
                out |-> classify_shot(call.arg.shot, call.arg.template)]
    /\ UNCHANGED <<sessions, kpi_templates, club_subsessions, projections, last, writers>>

NextClassify == ClassifyShot

SpecClassify == InitClassify /\ [][NextClassify]_vars

\* ------------------------------------------------------------------ validity

\* A Python float that is zero or positive, as the IEEE 754 double it is.
\* The 53 bits of the significand are a leading 1 and Chunks digits of
\* ChunkBits bits each (base Base): the value is
\* (1 + digits[1]/Base + digits[2]/Base^2 + ...) times 2^exp.  Zero has no
\* digits.
ChunkBits == 13
Base == 2 ^ ChunkBits
Chunks == 4
Double(digits, exp) == [digits |-> digits, exp |-> exp]
DoubleZero == Double(<<>>, 0)

\* digits + 1, and whether the sum carried out of the first digit.
carried(incremented) == [digits |-> Append(incremented.digits, 0), carry |-> incremented.carry]

RECURSIVE Incremented(_)
Incremented(digits) ==
    IF digits = <<>> THEN [digits |-> <<>>, carry |-> TRUE]
    ELSE IF digits[Len(digits)] < Base - 1
    THEN [digits |-> [digits EXCEPT ![Len(digits)] = @ + 1], carry |-> FALSE]
    ELSE carried(Incremented(SubSeq(digits, 1, Len(digits) - 1)))

\* The rounded-up significand: a carry into the leading 1 gives 1.0...0 with
\* the next exponent.
rounded_up(incremented, exp) ==
    IF incremented.carry THEN Double(incremented.digits, exp + 1)
    ELSE Double(incremented.digits, exp)

\* Round to nearest, ties to even: up when more than half a unit in the last
\* place was left, or exactly half and the last bit is odd.
round_half_even(digits, exp, more_than_half, half) ==
    IF more_than_half \/ (half /\ digits[Chunks] % 2 = 1)
    THEN rounded_up(Incremented(digits), exp)
    ELSE Double(digits, exp)

\* The digits of the quotient after the leading 1, by long division: r is
\* the remainder so far (r < d) and k the number of digits still to produce.
RECURSIVE quotient_digits(_, _, _, _, _)
quotient_digits(r, d, k, digits, exp) ==
    IF k = 0 THEN round_half_even(digits, exp, 2 * r > d, 2 * r = d)
    ELSE quotient_digits((r * Base) % d, d, k - 1, Append(digits, (r * Base) \div d), exp)

\* n / d for integers n >= 0 and d > 0 (true division, correctly rounded):
\* n and d are scaled until d <= n < 2d, which fixes the exponent.
RECURSIVE float_div(_, _, _)
float_div(n, d, exp) ==
    IF n = 0 THEN DoubleZero
    ELSE IF n >= 2 * d THEN float_div(n, 2 * d, exp + 1)
    ELSE IF n < d THEN float_div(2 * n, d, exp - 1)
    ELSE quotient_digits(n - d, d, Chunks, <<>>, exp)

\* The significand (leading 1 included) times a small k, plus carry: the
\* first element of the product is what the leading 1 became.
RECURSIVE product_digits(_, _, _)
product_digits(digits, k, carry) ==
    IF digits = <<>> THEN <<k + carry>>
    ELSE Append(product_digits(SubSeq(digits, 1, Len(digits) - 1), k,
                               (digits[Len(digits)] * k + carry) \div Base),
                (digits[Len(digits)] * k + carry) % Base)

RECURSIVE Log2(_)
Log2(n) == IF n < 2 THEN 0 ELSE 1 + Log2(n \div 2)

\* The product shifted right by shift bits (1 <= shift), so that its first
\* element is the leading 1 again, and rounded by the bits shifted out.
rounded_product(product, shift, exp) ==
    round_half_even([i \in 1..Chunks |->
                        (product[i] % (2 ^ shift)) * (2 ^ (ChunkBits - shift))
                            + product[i + 1] \div (2 ^ shift)],
                    exp + shift,
                    product[Chunks + 1] % (2 ^ shift) > 2 ^ (shift - 1),
                    product[Chunks + 1] % (2 ^ shift) = 2 ^ (shift - 1))

shifted_product(product, exp) == rounded_product(product, Log2(product[1]), exp)

\* x * 100.0 for a double x >= 0.
float_times_100(x) ==
    IF x = DoubleZero THEN DoubleZero
    ELSE shifted_product(product_digits(x.digits, 100, 0), x.exp)

\* A plausible slip: the boundaries are inclusive (<= 5, <= 15).
compute_validity_status_inclusive(shot_count) ==
    IF shot_count <= 5 THEN "invalid_insufficient_data"
    ELSE IF shot_count <= 15 THEN "valid_low_sample_warning"
    ELSE "valid"

\* compute_validity_status(shot_count).
compute_validity_status(shot_count) ==
    IF shot_count < 5 THEN "invalid_insufficient_data"
    ELSE IF shot_count < 15 THEN "valid_low_sample_warning"
    ELSE "valid"

\* compute_a_percentage(a_count, shot_count, validity_status): None, or
\* (a_count / shot_count) * 100.0.
compute_a_percentage(a_count, shot_count, validity_status) ==
    IF validity_status = "invalid_insufficient_data" THEN NULL
    ELSE IF shot_count <= 0 THEN NULL
    ELSE Some(float_times_100(float_div(a_count, shot_count, 0)))

\* The counts the two functions are called with.
MaxShotCount == 25

InitValidity ==
    /\ sessions = <<>>
    /\ kpi_templates = <<>>
    /\ club_subsessions = <<>>
    /\ projections = <<>>
    /\ last = [op |-> "init", status |-> "ok", violations |-> {}, ret |-> NULL]
    /\ writers = [w \in Writers |-> IdleWriter]
    /\ call \in {[fn |-> "none",
                  arg |-> [a_count |-> a, shot_count |-> n, validity_status |-> st],
                  out |-> NULL] :
                    n \in 0..MaxShotCount, a \in 0..MaxShotCount, st \in ValidityStatuses}

ComputeValidityStatus ==
    /\ call.fn = "none"
    /\ call' = [fn |-> "compute_validity_status", arg |-> call.arg,
                out |-> compute_validity_status(call.arg.shot_count)]
    /\ UNCHANGED <<sessions, kpi_templates, club_subsessions, projections, last, writers>>

ComputeAPercentage ==
    /\ call.fn = "none"
    /\ call.arg.a_count <= call.arg.shot_count
    /\ call' = [fn |-> "compute_a_percentage", arg |-> call.arg,
                out |-> compute_a_percentage(call.arg.a_count, call.arg.shot_count,
                                             call.arg.validity_status)]
    /\ UNCHANGED <<sessions, kpi_templates, club_subsessions, projections, last, writers>>

NextValidity == ComputeValidityStatus \/ ComputeAPercentage

SpecValidity == InitValidity /\ [][NextValidity]_vars

\* ------------------------------------------------------------------ ingest

\* _compute_average(shots, field): None without a shot that has the field,
\* else sum(values) / len(values).
field_values(shots, field) ==
    [i \in 1..Len(SelectSeq(shots, LAMBDA shot : DictHas(shot, field))) |->
        DictGet(SelectSeq(shots, LAMBDA shot : DictHas(shot, field))[i], field, NULL).val]

average_of(values) ==
    IF values = <<>> THEN NULL ELSE Some(float_div(SumSeq(values), Len(values), 0))

compute_average(shots, field) == average_of(field_values(shots, field))

\* Lines 70-81: the number of shots with the grade; a grade that is neither
\* A nor B counts as C.
count_of(grades, grade) ==
    Cardinality({i \in 1..Len(grades) :
                    IF grade = "C" THEN grades[i].value \notin {"A", "B"}
                    ELSE grades[i].value = grade})

\* Lines 83-110: the arguments of insert_subsession for a club.
subsession_args(session_id, club, template_hash, shots, grades, validity_status) ==
    [session_id |-> session_id,
     club |-> club,
     kpi_template_hash |-> template_hash,
     shot_count |-> Len(shots),
     validity_status |-> validity_status,
     a_count |-> count_of(grades, "A"),
     b_count |-> count_of(grades, "B"),
     c_count |-> count_of(grades, "C"),
     a_percentage |-> compute_a_percentage(count_of(grades, "A"), Len(shots), validity_status),
     avg_carry |-> compute_average(shots, Chars["carry_distance"]),
     avg_ball_speed |-> compute_average(shots, Chars["ball_speed"]),
     avg_spin |-> compute_average(shots, Chars["spin_rate"]),
     avg_descent |-> compute_average(shots, Chars["descent_angle"])]

\* The loop of ingest_rapsodo_csv over shots_by_club.items(), from the i-th
\* club on.  Every repository call commits on its own, so an exception ends
\* the call with the database as the calls before it left it.
RECURSIVE ingest_clubs(_, _, _, _, _)

\* A plausible slip: the call returns after the first sub-session (a return
\* inside the loop).
ingest_inserted_returns(inserted, session_id, shots_by_club, template_hash_by_club, i) ==
    IF inserted.outcome.status # "ok" THEN inserted
    ELSE Result(inserted.db, Ok(session_id))

\* Lines 95-110: after repo.insert_subsession.
ingest_inserted(inserted, session_id, shots_by_club, template_hash_by_club, i) ==
    IF inserted.outcome.status # "ok" THEN inserted
    ELSE ingest_clubs(inserted.db, session_id, shots_by_club, template_hash_by_club, i + 1)

\* Lines 74-110: the shots are classified (an exception of _classify_shot
\* ends the call), counted, and the sub-session is inserted.
ingest_classified(db, session_id, shots_by_club, template_hash_by_club, i, grades) ==
    IF \E k \in 1..Len(grades) : grades[k].status # "ok"
    THEN Result(db, Raise("ValueError", {}))
    ELSE ingest_inserted(
             insert_subsession(db,
                 subsession_args(session_id, shots_by_club[i][1],
                                 template_hash_by_club[shots_by_club[i][1]][1],
                                 shots_by_club[i][2], grades,
                                 compute_validity_status(Len(shots_by_club[i][2])))),
             session_id, shots_by_club, template_hash_by_club, i)

\* Lines 63-75: ValueError when the ledger has no template of the hash;
\* otherwise the template is json.loads of the stored canonical_json.
ingest_template(db, session_id, shots_by_club, template_hash_by_club, i, template_row) ==
    IF template_row = NULL THEN Result(db, Raise("ValueError", {}))
    ELSE ingest_classified(db, session_id, shots_by_club, template_hash_by_club, i,
             [k \in 1..Len(shots_by_club[i][2]) |->
                 classify_shot(shots_by_club[i][2][k],
                               json_loads(template_row[1].canonical_json))])

\* Lines 55-63: a club without a template hash is passed over.
ingest_clubs(db, session_id, shots_by_club, template_hash_by_club, i) ==
    IF i > Len(shots_by_club) THEN Result(db, Ok(session_id))
    ELSE IF template_hash_by_club[shots_by_club[i][1]] = NULL
    THEN ingest_clubs(db, session_id, shots_by_club, template_hash_by_club, i + 1)
    ELSE ingest_template(db, session_id, shots_by_club, template_hash_by_club, i,
             get_template(db, template_hash_by_club[shots_by_club[i][1]][1]).outcome.ret[1])

\* Lines 45-55: after repo.insert_session.
ingest_session(inserted, shots_by_club, template_hash_by_club) ==
    ingest_clubs(inserted.db, inserted.outcome.ret[1], shots_by_club,
                 template_hash_by_club, 1)

\* ingest_rapsodo_csv(repo, csv_path, template_hash_by_club, session_date =
\* session_date): shots_by_club is what _parse_rapsodo_csv returned for the
\* file, the clubs in the order of their first shot.
ingest_rapsodo_csv(db, shots_by_club, template_hash_by_club, session_date) ==
    ingest_session(insert_session(db, session_date, "test.csv", Some("Rapsodo MLM2Pro"), NULL),
                   shots_by_club, template_hash_by_club)

\* The files and templates of the ingest calls.  A file has shots of one or
\* two clubs, from 1 to MaxShots of each; the k-th shot of a club has ball
\* speed k mod 3.  A stored template grades ball_speed, or names an
\* aggregation method the classifier rejects.
MaxShots == 15

IngestClubs == {"7i", "pw"}

ParsedShot(k) ==
    Value("dict", << <<Chars["carry_distance"], Value("int", 2)>>,
                     <<Chars["ball_speed"], Value("int", k % 3)>>,
                     <<Chars["smash_factor"], Value("int", 1)>>,
                     <<Chars["spin_rate"], Value("int", 1)>>,
                     <<Chars["descent_angle"], Value("int", k % 2)>> >>)

ShotLists == {[k \in 1..n |-> ParsedShot(k)] : n \in {1, 4, 5, 14, MaxShots}}

ShotsByClub ==
    {c \in UNION {[1..n -> IngestClubs \X ShotLists] : n \in 0..2} :
        \A i, j \in 1..Len(c) : c[i][1] = c[j][1] => i = j}

TemplateHashesByClub == [IngestClubs -> {NULL} \cup {Some(h) : h \in Hashes}]

IngestTemplates ==
    {Value("dict", << <<Chars["aggregation_method"], Str("worst_metric")>>,
                      <<Chars["metrics"], Value("dict",
                          << <<Chars["ball_speed"], Value("dict",
                               << <<Chars["a_min"], Value("int", 2)>>,
                                  <<Chars["b_min"], Value("int", 1)>>,
                                  <<Chars["direction"], Str("higher_is_better")>> >>)>> >>)>> >>),
     Value("dict", << <<Chars["aggregation_method"], Str("best_metric")>>,
                      <<Chars["metrics"], EmptyDict>> >>)}

IngestJsons == {canonicalize(template).value : template \in IngestTemplates}

\* The three authoritative tables of a database.
LedgerOf(db) == <<db.sessions, db.kpi_templates, db.club_subsessions>>

\* A call of ingest_rapsodo_csv has run: the database is what the call
\* left, last is what the caller saw, and call keeps the arguments and the
\* ledger the call started from.
Ingested(r, shots_by_club, template_hash_by_club) ==
    /\ WithinBounds(r.db)
    /\ sessions' = r.db.sessions
    /\ kpi_templates' = r.db.kpi_templates
    /\ club_subsessions' = r.db.club_subsessions
    /\ projections' = r.db.projections
    /\ last' = [op |-> "ingest_rapsodo_csv", status |-> r.outcome.status,
                violations |-> r.outcome.violations, ret |-> r.outcome.ret]
    /\ call' = [fn |-> "ingest_rapsodo_csv",
                arg |-> [shots_by_club |-> shots_by_club,
                         template_hash_by_club |-> template_hash_by_club,
                         before |-> LedgerOf(Db)],
                out |-> NULL]
    /\ UNCHANGED writers

IngestRapsodoCsv(shots_by_club, template_hash_by_club) ==
    /\ Len(sessions) < MaxSessions
    /\ Ingested(ingest_rapsodo_csv(Db, shots_by_club, template_hash_by_club, 1),
                shots_by_club, template_hash_by_club)

NextIngest ==
    \/ \E h \in Hashes, j \in IngestJsons : InsertTemplate(h, "7i", j)
    \/ \E shots_by_club \in ShotsByClub, template_hash_by_club \in TemplateHashesByClub :
           IngestRapsodoCsv(shots_by_club, template_hash_by_club)

SpecIngest == Init /\ [][NextIngest]_vars

\* ------------------------------------------------------------------ trend calls

\* Most sub-sessions of a ledger under trend analysis.
MaxTrendUnits == 6

\* The arguments ingestion passes to insert_subsession for the shots of one
\* club, a_count of them graded A and the others C: the tier of the count,
\* and the percentage of the tiers that have one (the counts below give whole
\* percentages).
TrendUnit(club, template_hash, shot_count, a_count) ==
    [club |-> club, kpi_template_hash |-> template_hash,
     shot_count |-> shot_count,
     validity_status |-> compute_validity_status(shot_count),
     a_count |-> a_count, b_count |-> 0, c_count |-> shot_count - a_count,
     a_percentage |-> IF compute_validity_status(shot_count) = "invalid_insufficient_data"
                      THEN NULL
                      ELSE Some((100 * a_count) \div shot_count)]

\* What one session holds: a 7i analysis of one of the three tiers, or two
\* analyses of the 7i shots (under two templates) and one of another club.
SessionUnits ==
    {<<TrendUnit("7i", HashPool[1], 3, 1)>>,
     <<TrendUnit("7i", HashPool[1], 10, 5)>>,
     <<TrendUnit("7i", HashPool[1], 20, 5)>>,
     <<TrendUnit("7i", HashPool[1], 10, 5), TrendUnit("7i", HashPool[2], 20, 15),
       TrendUnit("PW", HashPool[1], 20, 5)>>}

\* The session dates of the ledgers, in the order the sessions were ingested:
\* in and out of chronological order, with and without two sessions of the
\* same date.
TrendDateLists ==
    {<<1>>, <<1, 2>>, <<2, 2>>, <<1, 2, 3>>, <<2, 1, 3>>, <<1, 2, 2>>, <<2, 2, 1>>,
     <<1, 2, 3, 4, 5>>}

\* The ledger after the sub-sessions of one session were inserted.
RECURSIVE units_inserted(_, _, _, _)
units_inserted(db, session_id, units, i) ==
    IF i > Len(units) THEN db
    ELSE units_inserted(
             insert_subsession(db,
                 [session_id |-> session_id, club |-> units[i].club,
                  kpi_template_hash |-> units[i].kpi_template_hash,
                  shot_count |-> units[i].shot_count,
                  validity_status |-> units[i].validity_status,
                  a_count |-> units[i].a_count, b_count |-> units[i].b_count,
                  c_count |-> units[i].c_count,
                  a_percentage |-> units[i].a_percentage,
                  avg_carry |-> NULL, avg_ball_speed |-> NULL,
                  avg_spin |-> NULL, avg_descent |-> NULL]).db,
             session_id, units, i + 1)

\* The ledger after a session was ingested: insert_session, then the
\* session's sub-sessions.
session_ingested(inserted, units) ==
    units_inserted(inserted.db, inserted.outcome.ret[1], units, 1)

TrendDates == 1..5
TrendWindows == {NULL, Some(0), Some(2), Some(3)}
TrendMinValidities == MinValidities \cup {Some("invalid_insufficient_data")}

\* The ledger changed: the calls made on the ledger before are forgotten.
TrendLedgerBecomes(db) ==
    /\ Len(db.club_subsessions) <= MaxTrendUnits
    /\ sessions' = db.sessions
    /\ kpi_templates' = db.kpi_templates
    /\ club_subsessions' = db.club_subsessions
    /\ projections' = db.projections
    /\ call' = NoCall
    /\ UNCHANGED <<last, writers>>

\* The templates are loaded into the empty ledger.
LoadTrendTemplates ==
    /\ kpi_templates = <<>>
    /\ TrendLedgerBecomes(
           insert_template(insert_template(Db, HashPool[1], "1.0", "7i", "json_1").db,
                           HashPool[2], "1.0", "7i", "json_1").db)

\* A session of the given date is ingested with its sub-sessions.
IngestTrendSession(session_date, units) ==
    /\ kpi_templates # <<>>
    /\ \E dates \in TrendDateLists :
          /\ Len(sessions) < Len(dates)
          /\ dates[Len(sessions) + 1] = session_date
          /\ \A i \in 1..Len(sessions) : sessions[i].session_date = dates[i]
    /\ TrendLedgerBecomes(
           session_ingested(insert_session(Db, session_date, "test.csv", NULL, NULL), units))

\* repo.list_subsessions_by_club(club, min_validity) is called: the call and
\* what it returned or raised.
CallListSubsessionsByClub(club, min_validity) ==
    /\ call' = [fn |-> "list_subsessions_by_club",
                arg |-> [club |-> club, min_validity |-> min_validity],
                out |-> list_subsessions_by_club(Db, club, min_validity).outcome]
    /\ UNCHANGED <<sessions, kpi_templates, club_subsessions, projections, last, writers>>

\* compute_club_trend(repo, club, min_validity, window, weighted) is called.
CallComputeClubTrend(club, min_validity, window, weighted) ==
    /\ call' = [fn |-> "compute_club_trend",
                arg |-> [club |-> club, min_validity |-> min_validity,
                         window |-> window, weighted |-> weighted],
                out |-> compute_club_trend(Db, club, min_validity, window, weighted).outcome]
    /\ UNCHANGED <<sessions, kpi_templates, club_subsessions, projections, last, writers>>

NextTrend ==
    \/ LoadTrendTemplates
    \/ \E d \in TrendDates, units \in SessionUnits : IngestTrendSession(d, units)
    \/ \E c \in Clubs, mv \in TrendMinValidities : CallListSubsessionsByClub(c, mv)
    \/ \E mv \in TrendMinValidities, w \in TrendWindows, wt \in BOOLEAN :
          CallComputeClubTrend("7i", mv, w, wt)

SpecTrend == Init /\ [][NextTrend]_vars

\* ------------------------------------------------------------------ properties



\* A statement or call was refused with the given violation and left the
\* database as it was.
Refused(res, exception, violation) ==
    /\ res.outcome.status = exception
    /\ violation \in res.outcome.violations
    /\ res.db = Db

\* Values no stored row holds, one for each column.
SessionEdits ==
    [session_id |-> 99, session_date |-> 99, source_file |-> "modified.csv",
     device_type |-> Some("TrackMan"), location |-> Some("Indoor Range"),
     ingested_at |-> 99]
TemplateEdits ==
    [template_hash |-> "hash_x", schema_version |-> "2.0", club |-> "9i",
     canonical_json |-> "modified", created_at |-> 99, imported_at |-> Some(99)]
SubsessionEdits ==
    [subsession_id |-> 99, session_id |-> 99, club |-> "9i",
     kpi_template_hash |-> "hash_x", shot_count |-> 99,
     validity_status |-> "modified", a_count |-> 99, b_count |-> 99,
     c_count |-> 99, a_percentage |-> Some(99), avg_carry |-> Some(99),
     avg_ball_speed |-> Some(99), avg_spin |-> Some(99),
     avg_descent |-> Some(99), analyzed_at |-> 99]

\* C1: in every reachable state, an UPDATE of any column of a stored
\* session, template or sub-session and a DELETE of it, issued directly on
\* the database, raise IntegrityError with the triggers' immutability
\* message and leave the database as it was, so that the row is read back
\* with the values it had.
C1_Immutable ==
    /\ \A r \in Range(sessions) :
          /\ \A f \in DOMAIN SessionEdits :
                LET res == SqlUpdate(Db, "sessions", r.session_id, f, SessionEdits[f])
                IN /\ Refused(res, "IntegrityError", "immutable")
                   /\ get_session(res.db, r.session_id).outcome.ret = Some(Some(r))
          /\ LET res == SqlDelete(Db, "sessions", r.session_id)
             IN /\ Refused(res, "IntegrityError", "immutable")
                /\ get_session(res.db, r.session_id).outcome.ret = Some(Some(r))
    /\ \A r \in Range(kpi_templates) :
          /\ \A f \in DOMAIN TemplateEdits :
                LET res == SqlUpdate(Db, "kpi_templates", r.template_hash, f, TemplateEdits[f])
                IN /\ Refused(res, "IntegrityError", "immutable")
                   /\ get_template(res.db, r.template_hash).outcome.ret = Some(Some(r))
          /\ LET res == SqlDelete(Db, "kpi_templates", r.template_hash)
             IN /\ Refused(res, "IntegrityError", "immutable")
                /\ get_template(res.db, r.template_hash).outcome.ret = Some(Some(r))
    /\ \A r \in Range(club_subsessions) :
          /\ \A f \in DOMAIN SubsessionEdits :
                LET res == SqlUpdate(Db, "club_subsessions", r.subsession_id, f, SubsessionEdits[f])
                IN /\ Refused(res, "IntegrityError", "immutable")
                   /\ get_subsession(res.db, r.subsession_id).outcome.ret = Some(Some(r))
          /\ LET res == SqlDelete(Db, "club_subsessions", r.subsession_id)
             IN /\ Refused(res, "IntegrityError", "immutable")
                /\ get_subsession(res.db, r.subsession_id).outcome.ret = Some(Some(r))

\* An UPDATE of a stored row was refused as immutable, with rows in all
\* three tables.
C1_Witness ==
    /\ last.op = "raw_update"
    /\ last.status = "IntegrityError"
    /\ "immutable" \in last.violations
    /\ sessions # <<>> /\ kpi_templates # <<>> /\ club_subsessions # <<>>

\* The arguments name a session and a template that are stored.
RefersToStored(a) ==
    /\ \E t \in Range(sessions) : t.session_id = a.session_id
    /\ \E t \in Range(kpi_templates) : t.template_hash = a.kpi_template_hash

\* C2: in every reachable state, insert_subsession with the (session_id,
\* club, kpi_template_hash) of a stored sub-session raises IntegrityError
\* for the uniqueness constraint whatever its other arguments are and leaves
\* the database as it was; with a triple no stored sub-session has (and
\* well-formed arguments naming a stored session and template) it succeeds
\* and appends the row.
C2_DuplicateTripleRefused ==
    \A a \in SubsessionArgs :
        LET res == insert_subsession(Db, a)
        IN IF \E r \in Range(club_subsessions) : SameTriple(r, a)
           THEN Refused(res, "IntegrityError", "UNIQUE")
           ELSE (a \in WellFormedSubsessionArgs /\ RefersToStored(a)) =>
                   /\ res.outcome.status = "ok"
                   /\ res.db.club_subsessions =
                         Append(club_subsessions, SubsessionRow(Db, a))

\* A duplicate triple was refused.
C2_Witness ==
    /\ last.op = "insert_subsession"
    /\ last.status = "IntegrityError"
    /\ "UNIQUE" \in last.violations
    /\ club_subsessions # <<>>

\* C3: in every reachable state, insert_subsession for a (session_id, club)
\* that has stored sub-sessions, with a template hash none of them has,
\* succeeds and returns an id no stored sub-session has; every stored
\* sub-session is still there with the values it had; and
\* list_subsessions_by_session returns every sub-session of the session,
\* the new one included.
C3_ReAnalysisAddsRow ==
    \A a \in WellFormedSubsessionArgs :
        (/\ RefersToStored(a)
         /\ \E r \in Range(club_subsessions) :
               r.session_id = a.session_id /\ r.club = a.club
         /\ ~ \E r \in Range(club_subsessions) : SameTriple(r, a))
        =>
        LET res == insert_subsession(Db, a)
            listed == list_subsessions_by_session(res.db, a.session_id).outcome.ret[1]
            ofSession == {r \in Range(club_subsessions) : r.session_id = a.session_id}
        IN /\ res.outcome.status = "ok"
           /\ \A r \in Range(club_subsessions) : r.subsession_id # res.outcome.ret[1]
           /\ Len(res.db.club_subsessions) = Len(club_subsessions) + 1
           /\ \A i \in 1..Len(club_subsessions) :
                 res.db.club_subsessions[i] = club_subsessions[i]
           /\ ofSession \subseteq Range(listed)
           /\ \E r \in Range(listed) :
                 r.subsession_id = res.outcome.ret[1] /\ SameTriple(r, a)
           /\ Len(listed) = Cardinality(ofSession) + 1

\* A second analysis of a (session, club) with another template was stored.
C3_Witness ==
    /\ last.op = "insert_subsession"
    /\ last.status = "ok"
    /\ \E r, q \in Range(club_subsessions) :
          /\ q.subsession_id = last.ret[1]
          /\ r.subsession_id # q.subsession_id
          /\ r.session_id = q.session_id
          /\ r.club = q.club
          /\ r.kpi_template_hash # q.kpi_template_hash

\* C4: insert_template with the hash of a stored template returns that hash
\* without raising and leaves the database as it was.
C4_DuplicateTemplateIsNoOp ==
    \A t \in Range(kpi_templates), c \in Clubs, j \in Jsons :
        LET res == insert_template(Db, t.template_hash, "1.0", c, j)
        IN /\ res.outcome.status = "ok"
           /\ res.outcome.ret = Some(t.template_hash)
           /\ res.db = Db

\* C5: in every reachable state each stored sub-session has a NULL
\* a_percentage exactly when its validity_status is
\* invalid_insufficient_data, and insert_subsession with a percentage for
\* that status or without one for another status raises IntegrityError for
\* the CHECK constraint and leaves the database as it was.
C5_PercentageNullIffInvalid ==
    /\ \A r \in Range(club_subsessions) :
          (r.a_percentage = NULL) <=> (r.validity_status = "invalid_insufficient_data")
    /\ \A a \in SubsessionArgs :
          ((a.a_percentage = NULL) # (a.validity_status = "invalid_insufficient_data"))
          => Refused(insert_subsession(Db, a), "IntegrityError", "CHECK:a_percentage")

\* An inconsistent percentage was refused.
C5_Witness ==
    /\ last.op = "insert_subsession"
    /\ last.status = "IntegrityError"
    /\ "CHECK:a_percentage" \in last.violations

\* C6: in every reachable state each stored sub-session has a_count +
\* b_count + c_count = shot_count, and insert_subsession with counts that do
\* not add up to shot_count raises IntegrityError for the CHECK constraint
\* and leaves the database as it was.
C6_CountsSumToShotCount ==
    /\ \A r \in Range(club_subsessions) :
          r.a_count + r.b_count + r.c_count = r.shot_count
    /\ \A a \in SubsessionArgs :
          (a.a_count + a.b_count + a.c_count # a.shot_count)
          => Refused(insert_subsession(Db, a), "IntegrityError", "CHECK:counts")

\* Counts that do not add up were refused.
C6_Witness ==
    /\ last.op = "insert_subsession"
    /\ last.status = "IntegrityError"
    /\ "CHECK:counts" \in last.violations

\* C7: in every reachable state each stored sub-session names a stored
\* session and a stored template, and insert_subsession with a session_id
\* or a kpi_template_hash that is not stored raises IntegrityError for the
\* foreign key and leaves the database as it was.
C7_ReferencesExist ==
    /\ \A r \in Range(club_subsessions) : RefersToStored(r)
    /\ \A a \in SubsessionArgs :
          LET res == insert_subsession(Db, a)
          IN /\ (~ \E t \in Range(sessions) : t.session_id = a.session_id)
                => Refused(res, "IntegrityError", "FOREIGN KEY:session_id")
             /\ (~ \E t \in Range(kpi_templates) : t.template_hash = a.kpi_template_hash)
                => Refused(res, "IntegrityError", "FOREIGN KEY:kpi_template_hash")

\* A sub-session for a session that is not stored was refused, with a
\* session and a template stored.
C7_Witness ==
    /\ last.op = "insert_subsession"
    /\ last.status = "IntegrityError"
    /\ "FOREIGN KEY:session_id" \in last.violations
    /\ sessions # <<>> /\ kpi_templates # <<>>

\* The authoritative tables of a database.
Ledger(db) == <<db.sessions, db.kpi_templates, db.club_subsessions>>

\* C8: in every reachable state import_projection raises
\* ProjectionImportError for every input, the serialization of a projection
\* generated from a stored sub-session included, and leaves the sessions,
\* kpi_templates and club_subsessions tables as they were.
C8_ImportAlwaysRefused ==
    \A p \in ImportInputs :
        LET res == import_projection(Db, p)
        IN /\ res.outcome.status = "ProjectionImportError"
           /\ Ledger(res.db) = Ledger(Db)

\* An import was refused while a sub-session, whose serialized projection
\* is among the inputs, is stored.
C8_Witness ==
    /\ last.op = "import_projection"
    /\ last.status = "ProjectionImportError"
    /\ club_subsessions # <<>>

\* What every authoritative get and list read returns on a database.
AuthoritativeReads(db) ==
    [get_session |-> [id \in SessionIds |-> get_session(db, id).outcome],
     get_template |-> [h \in Hashes |-> get_template(db, h).outcome],
     list_templates_by_club |-> [c \in Clubs |-> list_templates_by_club(db, c).outcome],
     get_subsession |-> [id \in SubsessionIds |-> get_subsession(db, id).outcome],
     list_subsessions_by_session |->
         [id \in SessionIds |-> list_subsessions_by_session(db, id).outcome],
     list_subsessions_by_club |->
         [c \in Clubs |-> [mv \in MinValidities |->
             list_subsessions_by_club(db, c, mv).outcome]]]

\* Contents of the projection cache other than the present ones: the cache
\* emptied, with one projection deleted, or with one projection replaced.
OtherCaches ==
    {delete_all_projections(Db).db.projections}
    \cup {delete_projection(Db, id).db.projections : id \in SubsessionIds}
    \cup {upsert_projection(Db, id, <<>>, 0).db.projections : id \in SubsessionIds}

\* C9: in every reachable state every authoritative get and list read
\* returns on the database with other contents of the projection cache (in
\* particular with the cache emptied) what it returns on the database, and
\* no foreign key of an authoritative table refers to projections.
C9_ReadsIgnoreProjections ==
    /\ \A cache \in OtherCaches :
          AuthoritativeReads([Db EXCEPT !.projections = cache]) = AuthoritativeReads(Db)
    /\ \A table \in AuthoritativeTables : "projections" \notin foreign_key_list(table)

\* Every projection was deleted from a cache that held one.
C9_Witness ==
    /\ last.op = "delete_all_projections"
    /\ last.ret = Some(1)
    /\ projections = <<>>
    /\ club_subsessions # <<>>

\* C10: in every reachable state each of get_session, get_template,
\* list_templates_by_club, get_subsession, list_subsessions_by_session,
\* list_subsessions_by_club, generate_projection_for_subsession and
\* compute_club_trend, whether it returns or raises, leaves the sessions,
\* kpi_templates and club_subsessions tables as they were.
C10_ReadsLeaveLedger ==
    /\ \A id \in SessionIds : Ledger(get_session(Db, id).db) = Ledger(Db)
    /\ \A h \in Hashes : Ledger(get_template(Db, h).db) = Ledger(Db)
    /\ \A c \in Clubs : Ledger(list_templates_by_club(Db, c).db) = Ledger(Db)
    /\ \A id \in SubsessionIds : Ledger(get_subsession(Db, id).db) = Ledger(Db)
    /\ \A id \in SessionIds : Ledger(list_subsessions_by_session(Db, id).db) = Ledger(Db)
    /\ \A c \in Clubs, mv \in MinValidities :
          Ledger(list_subsessions_by_club(Db, c, mv).db) = Ledger(Db)
    /\ \A id \in SubsessionIds :
          Ledger(generate_projection_for_subsession(Db, id).db) = Ledger(Db)
    /\ \A c \in Clubs, mv \in MinValidities, w \in Windows, wt \in BOOLEAN :
          Ledger(compute_club_trend(Db, c, mv, w, wt).db) = Ledger(Db)

\* A trend was computed over stored sub-sessions.
C10_Witness ==
    /\ last.op = "compute_club_trend"
    /\ last.status = "ok"
    /\ club_subsessions # <<>>

\* C11: in every reachable state get_template returns, for the hash of a
\* stored template, the stored row with the template_hash and the
\* canonical_json it was inserted with (whether or not that hash is a hash
\* of that content), list_templates_by_club returns exactly the stored rows
\* of the club, and the sub-session reads return the stored
\* kpi_template_hash: no read derives a hash.
C11_ReadsReturnStoredHash ==
    /\ \A t \in Range(kpi_templates) :
          /\ get_template(Db, t.template_hash).outcome.ret = Some(Some(t))
          /\ t \in Range(list_templates_by_club(Db, t.club).outcome.ret[1])
    /\ \A c \in Clubs :
          Range(list_templates_by_club(Db, c).outcome.ret[1])
             = {t \in Range(kpi_templates) : t.club = c}
    /\ \A r \in Range(club_subsessions) :
          /\ get_subsession(Db, r.subsession_id).outcome.ret = Some(Some(r))
          /\ r \in Range(list_subsessions_by_session(Db, r.session_id).outcome.ret[1])
          /\ r \in Range(list_subsessions_by_club(Db, r.club, NULL).outcome.ret[1])

\* get_template was called while every hash it can be called with is stored.
C11_Witness ==
    /\ last.op = "get_template"
    /\ last.status = "ok"
    /\ \A h \in Hashes : \E t \in Range(kpi_templates) : t.template_hash = h

IsFinite(v) == v.kind = "int" \/ (v.kind \in {"float", "decimal"} /\ v.val.special = "")

NumberOf(v) ==
    LET d == IF v.kind = "int" THEN DecimalOfInt(v.val) ELSE v.val
        n == FloatOfDigits(d.sign, d.digits, d.exp)
    IN [sign |-> IF n.digits = <<"0">> THEN 0 ELSE n.sign, digits |-> n.digits, exp |-> n.exp]

\* A token in fixed-point notation: an optional '-', digits, and possibly a
\* point followed by digits the last of which is not 0; no exponent, no
\* leading zeros before the point, and not -0.
FixedPoint(token) ==
    LET unsigned == IF token # <<>> /\ token[1] = "-" THEN Tail(token) ELSE token
        dots == {i \in 1..Len(unsigned) : unsigned[i] = "."}
    IN /\ unsigned # <<>>
       /\ \A i \in 1..Len(unsigned) : unsigned[i] \in Range(DigitChars) \cup {"."}
       /\ Cardinality(dots) <= 1
       /\ \A i \in dots : 1 < i /\ i < Len(unsigned) /\ unsigned[Len(unsigned)] # "0"
       /\ unsigned[1] = "0" => (Len(unsigned) = 1 \/ unsigned[2] = ".")
       /\ token # <<"-", "0">>

\* C18: canonicalize of a finite number (an int, a float or a Decimal)
\* returns a token in fixed-point notation, without exponent, without
\* trailing fractional zeros, without a point when the number is integral,
\* with -0 written 0; the token denotes the number, and every numerically
\* equal number, of whatever type and however written, gets the same token.
C18_EqualNumbersSameToken ==
    (call.fn = "canonicalize" /\ call.arg \in Numbers /\ IsFinite(call.arg)) =>
        /\ call.out.status = "ok"
        /\ FixedPoint(call.out.value)
        /\ ("." \in Range(call.out.value)) <=> (NumberOf(call.arg).exp < 0)
        /\ NumberOf(Value("decimal", DecimalOfToken(call.out.value))) = NumberOf(call.arg)
        /\ \A other \in Numbers :
              (IsFinite(other) /\ NumberOf(other) = NumberOf(call.arg)) =>
                  canonicalize(other) = call.out

\* Decimal('-1.5E-7'), whose str is in scientific notation, was written
\* -0.00000015, as the float -1.5e-07 is.
C18_Witness ==
    /\ call.fn = "canonicalize"
    /\ call.arg = Value("decimal", Decimal(1, 15, -8))
    /\ call.out = Returned(<<"-", "0", ".", "0", "0", "0", "0", "0", "0", "1", "5">>)
    /\ Value("float", Float(1, 15, -8)) \in Numbers

\* The values that differ from t only in the insertion order of the keys
\* of its dicts, at every depth (t is one of them).
RECURSIVE Reordered(_)
Reordered(t) ==
    IF t.kind = "dict"
    THEN LET n == Len(t.val)
             perms == {p \in [1..n -> 1..n] : \A i, j \in 1..n : p[i] = p[j] => i = j}
             choices == {c \in [1..n -> UNION {Reordered(t.val[i][2]) : i \in 1..n}] :
                            \A i \in 1..n : c[i] \in Reordered(t.val[i][2])}
         IN UNION {{Value("dict", [i \in 1..n |-> <<t.val[p[i]][1], c[p[i]]>>]) :
                       c \in choices} : p \in perms}
    ELSE IF t.kind = "list"
    THEN LET n == Len(t.val)
             choices == {c \in [1..n -> UNION {Reordered(t.val[i]) : i \in 1..n}] :
                            \A i \in 1..n : c[i] \in Reordered(t.val[i])}
         IN {Value("list", c) : c \in choices}
    ELSE {t}

\* The values that differ from t in one list, at any depth, whose items are
\* in reverse order, where the canonical texts of the items in reverse order
\* are not those in order.
Reverse(l) == [i \in 1..Len(l) |-> l[Len(l) + 1 - i]]

RECURSIVE Reversals(_)
Reversals(t) ==
    IF t.kind = "list"
    THEN (IF [i \in 1..Len(t.val) |-> canonicalize(t.val[i])] #
             Reverse([i \in 1..Len(t.val) |-> canonicalize(t.val[i])])
          THEN {Value("list", Reverse(t.val))} ELSE {})
         \cup UNION {{Value("list", [t.val EXCEPT ![i] = q]) : q \in Reversals(t.val[i])} :
                        i \in 1..Len(t.val)}
    ELSE IF t.kind = "dict"
    THEN UNION {{Value("dict", [t.val EXCEPT ![i] = <<t.val[i][1], q>>]) :
                    q \in Reversals(t.val[i][2])} : i \in 1..Len(t.val)}
    ELSE {}

OutcomeOf(fn, t) == IF fn = "canonicalize" THEN canonicalize(t) ELSE compute_template_hash(t)

\* C14: canonicalize and compute_template_hash give the same outcome for
\* values that differ only in the insertion order of the keys of their
\* dicts, at any depth; the items of a list are written in the list's
\* order, and a value in which a list at any depth has its items reversed
\* gets a different text and a different hash.
C14_KeyOrderIndependent ==
    (call.fn \in {"canonicalize", "compute_template_hash"}) =>
        /\ \A p \in Reordered(call.arg) : OutcomeOf(call.fn, p) = call.out
        /\ call.out.status = "ok" =>
              \A q \in Reversals(call.arg) : OutcomeOf(call.fn, q) # call.out
        /\ (call.fn = "canonicalize" /\ call.arg.kind = "list" /\ call.out.status = "ok") =>
              call.out.value =
                  <<"[">> \o Join([i \in 1..Len(call.arg.val) |->
                                      canonicalize(call.arg.val[i]).value]) \o <<"]">>

\* The hash of [{"b": 1.5, "a": 1}, "a"] was computed: the dict inside the
\* list can be built in another key order, and the list can be reversed.
C14_Witness ==
    /\ call.fn = "compute_template_hash"
    /\ call.arg = Value("list",
                     <<Value("dict", << <<(<<"b">>), Value("float", Float(0, 15, -1))>>,
                                        <<(<<"a">>), Value("int", 1)>> >>),
                       Value("str", <<"a">>)>>)
    /\ call.out.status = "ok"
    /\ Cardinality(Reordered(call.arg)) = 2
    /\ Reversals(call.arg) # {}

\* C15: canonicalize is idempotent: when canonical1 = canonicalize(x)
\* returned, canonicalize(json.loads(canonical1)) returns canonical1.
C15_Idempotent ==
    (call.fn = "canonicalize_parsed") => call.out = Returned(call.arg)

\* The value contains NaN, Infinity or -Infinity (a float or a Decimal) at
\* some depth.
RECURSIVE HasNonFinite(_)
HasNonFinite(t) ==
    IF t.kind \in {"float", "decimal"} THEN t.val.special # ""
    ELSE IF t.kind = "list" THEN \E i \in 1..Len(t.val) : HasNonFinite(t.val[i])
    ELSE IF t.kind = "dict" THEN \E i \in 1..Len(t.val) : HasNonFinite(t.val[i][2])
    ELSE FALSE

\* C16: canonicalize and compute_template_hash reject a value that contains
\* NaN, Infinity or -Infinity at any depth: the call raises and returns no
\* canonical text and no hash.
C16_NonFiniteRejected ==
    (call.fn \in {"canonicalize", "compute_template_hash"} /\ HasNonFinite(call.arg)) =>
        call.out.status # "ok"

\* A value tree: null, a boolean, a finite number, a string, a list of value
\* trees or a mapping from strings to value trees.
RECURSIVE IsValueTree(_)
IsValueTree(t) ==
    IF t.kind \in {"none", "bool", "str"} THEN TRUE
    ELSE IF t.kind \in {"int", "float", "decimal"} THEN IsFinite(t)
    ELSE IF t.kind = "list" THEN \A i \in 1..Len(t.val) : IsValueTree(t.val[i])
    ELSE IF t.kind = "dict" THEN \A i \in 1..Len(t.val) : IsValueTree(t.val[i][2])
    ELSE FALSE

\* C17: canonicalize is total on value trees: it returns a text for every
\* value tree, at any depth, and the text of True is true, of False is false
\* and of None is null.
C17_TotalOnValueTrees ==
    (call.fn = "canonicalize" /\ IsValueTree(call.arg)) =>
        /\ call.out.status = "ok"
        /\ call.arg = Value("bool", TRUE) => call.out.value = <<"t", "r", "u", "e">>
        /\ call.arg = Value("bool", FALSE) => call.out.value = <<"f", "a", "l", "s", "e">>
        /\ call.arg = NoneValue => call.out.value = <<"n", "u", "l", "l">>

\* C13: every template the loader stored has as template_hash the SHA-256
\* of the UTF-8 bytes of the canonical_json of its row, which is also what
\* compute_template_hash returns for the template (the value that
\* canonical_json is the canonical text of).
C13_LoaderHashIsHashOfContent ==
    \A i \in 1..Len(kpi_templates) :
        /\ kpi_templates[i].template_hash =
               sha256_hexdigest(encode_utf8(kpi_templates[i].canonical_json))
        /\ Returned(kpi_templates[i].template_hash) =
               compute_template_hash(json_loads(kpi_templates[i].canonical_json))

\* The template is a worst_metric template whose metrics all have a rule of
\* the template schema: a direction of the two, and the A and B cutoffs of
\* that direction.
HasRule(thresholds) ==
    \/ /\ DictGet(thresholds, Chars["direction"], NoneValue) = Str("higher_is_better")
       /\ DictHas(thresholds, Chars["a_min"])
       /\ DictHas(thresholds, Chars["b_min"])
    \/ /\ DictGet(thresholds, Chars["direction"], NoneValue) = Str("lower_is_better")
       /\ DictHas(thresholds, Chars["a_max"])
       /\ DictHas(thresholds, Chars["b_max"])

MetricsOf(template) == DictGet(template, Chars["metrics"], EmptyDict).val

WorstMetricTemplate(template) ==
    /\ DictGet(template, Chars["aggregation_method"], NoneValue) = Str("worst_metric")
    /\ \A i \in 1..Len(MetricsOf(template)) : HasRule(MetricsOf(template)[i][2])

\* The grade of one metric of the template for the shot: C when the shot
\* does not report the metric, and otherwise by the direction of the rule.
IndividualGrade(shot, metric_name, thresholds) ==
    IF ~DictHas(shot, metric_name) THEN "C"
    ELSE IF DictGet(thresholds, Chars["direction"], NoneValue) = Str("higher_is_better")
    THEN (IF DictGet(shot, metric_name, NULL).val >= DictGet(thresholds, Chars["a_min"], NULL).val
          THEN "A"
          ELSE IF DictGet(shot, metric_name, NULL).val
                      >= DictGet(thresholds, Chars["b_min"], NULL).val
          THEN "B" ELSE "C")
    ELSE (IF DictGet(shot, metric_name, NULL).val <= DictGet(thresholds, Chars["a_max"], NULL).val
          THEN "A"
          ELSE IF DictGet(shot, metric_name, NULL).val
                      <= DictGet(thresholds, Chars["b_max"], NULL).val
          THEN "B" ELSE "C")

WorstOf(grades) ==
    IF "C" \in grades THEN "C" ELSE IF "B" \in grades THEN "B" ELSE "A"

\* The template with its metrics in the order p.
Visited(template, p) ==
    DictSet(template, Chars["metrics"],
            Value("dict", [i \in 1..Len(MetricsOf(template)) |-> MetricsOf(template)[p[i]]]))

Orders(n) == {p \in [1..n -> 1..n] : \A i, j \in 1..n : p[i] = p[j] => i = j}

\* C19: for a worst_metric template, _classify_shot returns the worst of the
\* grades of the metrics of the template (C if one grades C, else B if one
\* grades B, else A), each graded by its direction against its A and B
\* cutoffs, and returns the same for every order of the metrics.
C19_WorstOfMetricGrades ==
    (call.fn = "classify_shot" /\ WorstMetricTemplate(call.arg.template)) =>
        /\ call.out =
               Returned(WorstOf({IndividualGrade(call.arg.shot,
                                                 MetricsOf(call.arg.template)[i][1],
                                                 MetricsOf(call.arg.template)[i][2]) :
                                    i \in 1..Len(MetricsOf(call.arg.template))}))
        /\ \A p \in Orders(Len(MetricsOf(call.arg.template))) :
               classify_shot(call.arg.shot, Visited(call.arg.template, p)) = call.out

\* The two shots report the same values for the metrics of the template.
SameOnTemplate(shot, other, template) ==
    \A i \in 1..Len(MetricsOf(template)) :
        DictGet(shot, MetricsOf(template)[i][1], NoneValue)
            = DictGet(other, MetricsOf(template)[i][1], NoneValue)

\* C20: when the shot does not report a metric of the template, the grade
\* is C, the metric being graded C and not passed over; and what the shot
\* reports for metrics the template does not have changes nothing.
C20_MissingMetricGradesC ==
    (call.fn = "classify_shot" /\ WorstMetricTemplate(call.arg.template)) =>
        /\ (\E i \in 1..Len(MetricsOf(call.arg.template)) :
                ~DictHas(call.arg.shot, MetricsOf(call.arg.template)[i][1]))
               => call.out = Returned("C")
        /\ \A other \in Shots :
               SameOnTemplate(call.arg.shot, other, call.arg.template)
                   => classify_shot(other, call.arg.template) = call.out

\* The template names an aggregation method other than worst_metric, or one
\* of its metrics names a direction other than the two.
Misconfigured(template) ==
    \/ /\ DictHas(template, Chars["aggregation_method"])
       /\ DictGet(template, Chars["aggregation_method"], NoneValue) # Str("worst_metric")
    \/ \E i \in 1..Len(MetricsOf(template)) :
           /\ DictHas(MetricsOf(template)[i][2], Chars["direction"])
           /\ DictGet(MetricsOf(template)[i][2], Chars["direction"], NoneValue)
                  \notin {Str("higher_is_better"), Str("lower_is_better")}

\* C21: _classify_shot against a template with an aggregation method other
\* than worst_metric, or with a metric whose direction is neither
\* higher_is_better nor lower_is_better, raises the configuration error
\* (ValueError) and returns no grade.
C21_MisconfiguredTemplateRaises ==
    (call.fn = "classify_shot" /\ Misconfigured(call.arg.template)) =>
        call.out.status = "ValueError"

\* C23: compute_a_percentage returns None when the tier is
\* invalid_insufficient_data or the count is zero (so for every count below
\* 5 under that tier, whatever a_count is), and otherwise returns
\* 100 * a_count / count.
C23_PercentageOrNull ==
    (call.fn = "compute_a_percentage") =>
        IF call.arg.validity_status = "invalid_insufficient_data" \/ call.arg.shot_count = 0
        THEN call.out = NULL
        ELSE call.out = Some(float_div(100 * call.arg.a_count, call.arg.shot_count, 0))

\* The ingest call that ran last, its arguments and the ledger before it.
IngestRan == call.fn = "ingest_rapsodo_csv" /\ last.op = "ingest_rapsodo_csv"

\* C22: compute_validity_status returns invalid_insufficient_data for a
\* count below 5, valid_low_sample_warning from 5 to 14 and valid from 15
\* on, and every sub-session that ingestion wrote has the validity_status
\* that compute_validity_status gives for its shot_count.
C22_ValidityByCount ==
    /\ \A n \in 0..(MaxShots + 1) :
           compute_validity_status(n) =
               IF n < 5 THEN "invalid_insufficient_data"
               ELSE IF n < 15 THEN "valid_low_sample_warning"
               ELSE "valid"
    /\ \A i \in 1..Len(club_subsessions) :
           club_subsessions[i].validity_status =
               IF club_subsessions[i].shot_count < 5 THEN "invalid_insufficient_data"
               ELSE IF club_subsessions[i].shot_count < 15 THEN "valid_low_sample_warning"
               ELSE "valid"

\* An ingestion wrote a sub-session of 5 shots and one of 15.
C22_Witness ==
    /\ IngestRan
    /\ last.status = "ok"
    /\ \E i, j \in 1..Len(club_subsessions) :
           /\ club_subsessions[i].shot_count = 5
           /\ club_subsessions[i].validity_status = "valid_low_sample_warning"
           /\ club_subsessions[j].shot_count = 15
           /\ club_subsessions[j].validity_status = "valid"

\* The sub-sessions the ingest call added.
NewSubsessions == SubSeq(club_subsessions, Len(call.arg.before[3]) + 1, Len(club_subsessions))

\* C28: an ingestion that returned added exactly one session, whose id it
\* returned, and for every club of the file with a template hash supplied
\* exactly one sub-session, of that session id and that hash; it added no
\* other sub-session, so none for a club without a supplied hash.
C28_OneSessionOneUnitPerClub ==
    (IngestRan /\ last.status = "ok") =>
        /\ Len(sessions) = Len(call.arg.before[1]) + 1
        /\ SubSeq(sessions, 1, Len(call.arg.before[1])) = call.arg.before[1]
        /\ sessions[Len(sessions)].session_id = last.ret[1]
        /\ \A k \in 1..Len(call.arg.before[1]) : sessions[k].session_id # last.ret[1]
        /\ SubSeq(club_subsessions, 1, Len(call.arg.before[3])) = call.arg.before[3]
        /\ \A i \in 1..Len(call.arg.shots_by_club) :
               call.arg.template_hash_by_club[call.arg.shots_by_club[i][1]] # NULL =>
                   Cardinality({k \in 1..Len(NewSubsessions) :
                       /\ NewSubsessions[k].club = call.arg.shots_by_club[i][1]
                       /\ NewSubsessions[k].session_id = last.ret[1]
                       /\ NewSubsessions[k].kpi_template_hash =
                              call.arg.template_hash_by_club[call.arg.shots_by_club[i][1]][1]})
                       = 1
        /\ Len(NewSubsessions) =
               Cardinality({i \in 1..Len(call.arg.shots_by_club) :
                   call.arg.template_hash_by_club[call.arg.shots_by_club[i][1]] # NULL})

\* An ingestion of a file of two clubs returned, with a hash supplied for
\* both: it added two sub-sessions.
C28_Witness ==
    /\ IngestRan
    /\ last.status = "ok"
    /\ Len(call.arg.shots_by_club) = 2
    /\ Len(NewSubsessions) = 2

\* C29: an ingestion that raised left the sessions, kpi_templates and
\* club_subsessions tables as they were before the call: no session and no
\* sub-session of that ingestion is in the ledger.
C29_FailedIngestLeavesLedger ==
    (IngestRan /\ last.status # "ok") => LedgerOf(Db) = call.arg.before

\* The validity tiers, lowest first.
TierOrder == <<"invalid_insufficient_data", "valid_low_sample_warning", "valid">>
TierIndex(status) == CHOOSE i \in 1..3 : TierOrder[i] = status
KnownTier(min_validity) == min_validity = NULL \/ min_validity[1] \in Range(TierOrder)

\* The sub-sessions of a club whose tier is min_validity or a higher one; all
\* of the club's when min_validity is None.
AtOrAbove(club, min_validity) ==
    {r \in Range(club_subsessions) :
        /\ r.club = club
        /\ (min_validity = NULL
            \/ TierIndex(r.validity_status) >= TierIndex(min_validity[1]))}

Listed == call.fn = "list_subsessions_by_club" /\ KnownTier(call.arg.min_validity)
Trended == call.fn = "compute_club_trend" /\ KnownTier(call.arg.min_validity)
Selected == AtOrAbove(call.arg.club, call.arg.min_validity)
DataPoints == call.out.ret[1].data_points
IdsOf(rows) == {r.subsession_id : r \in rows}

\* C24: list_subsessions_by_club(club, min_validity) returns exactly the
\* sub-sessions of the club whose tier is at or above min_validity in the order
\* invalid_insufficient_data < valid_low_sample_warning < valid, each once, and
\* all of the club's for min_validity = None; compute_club_trend without a
\* window has one data point for each of these sub-sessions and no other, and
\* raises only when there is none.
C24_SelectsTierAtOrAbove ==
    /\ Listed =>
          /\ call.out.status = "ok"
          /\ Range(call.out.ret[1]) = Selected
          /\ Len(call.out.ret[1]) = Cardinality(Selected)
    /\ Trended =>
          /\ (call.out.status = "ok") = (Selected # {})
          /\ call.out.status = "ok" =>
                /\ IdsOf(Range(DataPoints)) \subseteq IdsOf(Selected)
                /\ Len(DataPoints) = Cardinality(Range(DataPoints))
                /\ call.arg.window = NULL => IdsOf(Range(DataPoints)) = IdsOf(Selected)

\* A ledger with 7i sub-sessions of the three tiers and one of another club
\* was listed for the 7i from the warning tier up: two rows came back.
C24_Witness ==
    /\ Listed
    /\ call.arg.club = "7i"
    /\ call.arg.min_validity = Some("valid_low_sample_warning")
    /\ \A status \in Range(TierOrder) :
          \E r \in Range(club_subsessions) : r.club = "7i" /\ r.validity_status = status
    /\ \E r \in Range(club_subsessions) : r.club = "PW"
    /\ call.out.status = "ok"
    /\ Len(call.out.ret[1]) = 2

\* The session_date of a session of the ledger.
TimestampOf(session_id) ==
    (CHOOSE s \in Range(sessions) : s.session_id = session_id).session_date

SelectedSessions == {r.session_id : r \in Selected}

\* The timestamp of the n-th most recent of the sessions: fewer than n of
\* them are later, and at least n are not earlier.
NthMostRecent(sessionIds, n) ==
    CHOOSE t \in {TimestampOf(s) : s \in sessionIds} :
        /\ Cardinality({s \in sessionIds : TimestampOf(s) > t}) < n
        /\ Cardinality({s \in sessionIds : TimestampOf(s) >= t}) >= n

Windowed ==
    /\ Trended
    /\ call.out.status = "ok"
    /\ call.arg.window # NULL
    /\ call.arg.window[1] > 0

\* C25: compute_club_trend with window = N keeps exactly the selected
\* sub-sessions whose session's timestamp is at or after the timestamp of the
\* N-th most recent of the distinct sessions the selected sub-sessions belong
\* to, and all of them when these are at most N sessions.
C25_WindowOfSessions ==
    Windowed =>
        IdsOf(Range(DataPoints)) =
            IF Cardinality(SelectedSessions) <= call.arg.window[1]
            THEN IdsOf(Selected)
            ELSE IdsOf({r \in Selected :
                          TimestampOf(r.session_id) >=
                              NthMostRecent(SelectedSessions, call.arg.window[1])})

\* The window as the code applies it, to dates: when no two of the selected
\* sessions have the same session_date, the window of N sessions is kept.
WindowOfDistinctTimestamps ==
    (Windowed /\ \A s, t \in SelectedSessions : TimestampOf(s) = TimestampOf(t) => s = t)
        => C25_WindowOfSessions

RECURSIVE SumOfProducts(_)
SumOfProducts(points) ==
    IF points = {} THEN 0
    ELSE LET dp == CHOOSE x \in points : TRUE
         IN dp.a_percentage[1] * dp.shot_count + SumOfProducts(points \ {dp})

RECURSIVE SumOfCounts(_)
SumOfCounts(points) ==
    IF points = {} THEN 0
    ELSE LET dp == CHOOSE x \in points : TRUE
         IN dp.shot_count + SumOfCounts(points \ {dp})

WithPercentage(points) == {dp \in points : dp.a_percentage # NULL}

WeightedTrend == Trended /\ call.out.status = "ok" /\ call.arg.weighted

\* C26: the weighted average compute_club_trend returns (weighted = True, the
\* default; the plain average of weighted = False is another quantity) is the sum of
\* a_percentage * shot_count over the sum of shot_count, both over the data
\* points it retained that have a percentage, and None when it retained no
\* such point.
C26_WeightedAverage ==
    WeightedTrend =>
        call.out.ret[1].weighted_avg_a_percent =
            IF WithPercentage(Range(DataPoints)) = {} THEN NULL
            ELSE Some([num |-> SumOfProducts(WithPercentage(Range(DataPoints))),
                       den |-> SumOfCounts(WithPercentage(Range(DataPoints)))])

\* A trend over a sub-session without percentage (3 shots), one of 50 percent
\* of 10 shots and one of 25 percent of 20 shots: 1000 / 30.
C26_Witness ==
    /\ WeightedTrend
    /\ Len(DataPoints) = 3
    /\ \E dp \in Range(DataPoints) : dp.a_percentage = NULL
    /\ call.out.ret[1].weighted_avg_a_percent = Some([num |-> 1000, den |-> 30])

\* The second of two loads of one file.
LoadedTwice ==
    /\ call.fn = "load_templates_from_kpis_json"
    /\ Len(call.out) = 2
    /\ call.out[1].status = "ok"

\* The clubs of the file a load was given.
InputClubs == DictGet(call.arg.kpis_file[1], Chars["clubs"], EmptyDict).val

NoRepeat(seq) == \A i, j \in 1..Len(seq) : seq[i] = seq[j] => i = j

\* What a load reported accounts for each club of the file once: as many
\* entries as clubs, no hash twice or in both lists, and the skipped clubs
\* are clubs of the file, each once.
EachClubOnce(report) ==
    /\ Len(report.inserted) + Len(report.existing) + Len(report.skipped)
           = Len(InputClubs)
    /\ NoRepeat(report.inserted \o report.existing)
    /\ NoRepeat([i \in 1..Len(report.skipped) |-> report.skipped[i][1]])
    /\ \A i \in 1..Len(report.skipped) :
          \E k \in 1..Len(InputClubs) : InputClubs[k][1] = report.skipped[i][1]

\* C27: when load_templates_from_kpis_json has loaded a file and loads it
\* again, the second load raises nothing, reports no hash as inserted and as
\* existing every hash the first load reported (inserted or existing), leaves
\* the template table as it found it, and each of the two reports accounts
\* for every club of the file exactly once.
C27_SecondLoadFindsAllExisting ==
    /\ (call.fn = "load_templates_from_kpis_json" /\ Len(call.out) >= 1
            /\ call.out[1].status = "ok")
           => EachClubOnce(call.out[1].ret[1])
    /\ LoadedTwice =>
          /\ call.out[2].status = "ok"
          /\ call.out[2].ret[1].inserted = <<>>
          /\ Range(call.out[2].ret[1].existing)
                = Range(call.out[1].ret[1].inserted) \cup Range(call.out[1].ret[1].existing)
          /\ call.out[2].ret[1].skipped = call.out[1].ret[1].skipped
          /\ kpi_templates = call.out[2].before
          /\ \A h \in Range(call.out[1].ret[1].inserted) :
                \E t \in Range(kpi_templates) : t.template_hash = h
          /\ EachClubOnce(call.out[2].ret[1])

\* A file of two clubs was loaded twice for a version only one of them has:
\* one template inserted and one club skipped, then one existing and one
\* skipped.
C27_Witness ==
    /\ LoadedTwice
    /\ Len(InputClubs) = 2
    /\ Len(call.out[1].ret[1].inserted) = 1
    /\ Len(call.out[1].ret[1].skipped) = 1
    /\ call.out[2].status = "ok"
    /\ Len(call.out[2].ret[1].existing) = 1

\* Two loads of the same content have both ended.
BothLoadsEnded ==
    /\ \A w \in {1, 2} : writers[w].pc = "done" /\ writers[w].args # NULL
    /\ writers[1].args[1].templates = writers[2].args[1].templates

\* C30: when two loads of the same template content ran at the same time and
\* both have ended, neither raised, the table has exactly one row for each
\* hash of the content, and each hash is in the inserted list of one load and
\* in the existing list of the other.
C30_ConcurrentLoadsBothSucceed ==
    BothLoadsEnded =>
        /\ \A w \in {1, 2} : writers[w].outcome[1].status = "ok"
        /\ \A i \in 1..Len(writers[1].args[1].templates) :
              LET h == writers[1].args[1].templates[i].template_hash
              IN /\ Cardinality({k \in 1..Len(kpi_templates) :
                                   kpi_templates[k].template_hash = h}) = 1
                 /\ \E w \in {1, 2} :
                       /\ h \in Range(writers[w].outcome[1].ret[1].inserted)
                       /\ h \notin Range(writers[w].outcome[1].ret[1].existing)
                       /\ h \in Range(writers[3 - w].outcome[1].ret[1].existing)
                       /\ h \notin Range(writers[3 - w].outcome[1].ret[1].inserted)

====
